---- MODULE Spec2Model ----
(***************************************************************************)
(* YMODEM sender and receiver (ymodem_send.c, ymodem_receive.c and the     *)
(* common helpers) as two sequential processes that meet only through the  *)
(* transport callbacks.  One action is one callback-delimited step of      *)
(* ymodem_send_file or ymodem_receive_file: the transport or file callback *)
(* at the program counter and all local code up to the next callback.      *)
(* Buffers are sequences of bytes; C index k is TLA+ index k + 1.          *)
(***************************************************************************)
EXTENDS Integers, Sequences, FiniteSets, TLC

(* ---- protocol codes, error codes, stages, sizes (ymodem_common.h) ---- *)
YMODEM_CODE_SOH == 1
YMODEM_CODE_STX == 2
YMODEM_CODE_EOT == 4
YMODEM_CODE_ACK == 6
YMODEM_CODE_NAK == 21
YMODEM_CODE_CAN == 24
YMODEM_CODE_C == 67

YMODEM_ERR_NONE == 0
YMODEM_ERR_TMO == -1
YMODEM_ERR_CODE == -2
YMODEM_ERR_SEQ == -3
YMODEM_ERR_CRC == -4
YMODEM_ERR_DSZ == -5
YMODEM_ERR_CAN == -6
YMODEM_ERR_ACK == -7
YMODEM_ERR_FILE == -8

YMODEM_STAGE_NONE == 0
YMODEM_STAGE_ESTABLISHING == 1
YMODEM_STAGE_ESTABLISHED == 2
YMODEM_STAGE_TRANSMITTING == 3
YMODEM_STAGE_FINISHING == 4
YMODEM_STAGE_FINISHED == 5

YMODEM_MAX_ERRORS == 5
YMODEM_SOH_DATA_SIZE == 128
YMODEM_STX_DATA_SIZE == 1024
YMODEM_SOH_PACKET_SIZE == 1 + 2 + YMODEM_SOH_DATA_SIZE + 2
YMODEM_STX_PACKET_SIZE == 1 + 2 + YMODEM_STX_DATA_SIZE + 2
YMODEM_MAX_PACKET_SIZE == YMODEM_STX_PACKET_SIZE
YMODEM_MAX_FILENAME_LENGTH == 256

(* the padding byte of memset(..., 0x1A, ...) in _ymodem_do_send_trans *)
SUB == 26
(* number of file_read calls _ymodem_do_send_trans makes to fill one block *)
ReadAttempts == 10
(* number of receive attempts after packet 0 in _ymodem_do_send_handshake *)
HandshakeReplies == 5

(* ---- 8 and 16 bit arithmetic ---- *)
RECURSIVE BitXor(_, _, _)
BitXor(a, b, n) ==
    IF n = 0 THEN 0
    ELSE (((a % 2) + (b % 2)) % 2) + 2 * BitXor(a \div 2, b \div 2, n - 1)

XorTable == [a \in 0..255 |-> [b \in 0..255 |-> BitXor(a, b, 8)]]

Xor8(a, b) == XorTable[a][b]

Xor16(a, b) == Xor8(a \div 256, b \div 256) * 256 + Xor8(a % 256, b % 256)

(* uint8_t ~x *)
Not8(x) == 255 - x

(* ---- CRC-16/CCITT (ymodem_common.c) ---- *)
crc16_ccitt_table == <<
    0, 4129, 8258, 12387, 16516, 20645, 24774, 28903,
    33032, 37161, 41290, 45419, 49548, 53677, 57806, 61935,
    4657, 528, 12915, 8786, 21173, 17044, 29431, 25302,
    37689, 33560, 45947, 41818, 54205, 50076, 62463, 58334,
    9314, 13379, 1056, 5121, 25830, 29895, 17572, 21637,
    42346, 46411, 34088, 38153, 58862, 62927, 50604, 54669,
    13907, 9842, 5649, 1584, 30423, 26358, 22165, 18100,
    46939, 42874, 38681, 34616, 63455, 59390, 55197, 51132,
    18628, 22757, 26758, 30887, 2112, 6241, 10242, 14371,
    51660, 55789, 59790, 63919, 35144, 39273, 43274, 47403,
    23285, 19156, 31415, 27286, 6769, 2640, 14899, 10770,
    56317, 52188, 64447, 60318, 39801, 35672, 47931, 43802,
    27814, 31879, 19684, 23749, 11298, 15363, 3168, 7233,
    60846, 64911, 52716, 56781, 44330, 48395, 36200, 40265,
    32407, 28342, 24277, 20212, 15891, 11826, 7761, 3696,
    65439, 61374, 57309, 53244, 48923, 44858, 40793, 36728,
    37256, 33193, 45514, 41451, 53516, 49453, 61774, 57711,
    4224, 161, 12482, 8419, 20484, 16421, 28742, 24679,
    33721, 37784, 41979, 46042, 49981, 54044, 58239, 62302,
    689, 4752, 8947, 13010, 16949, 21012, 25207, 29270,
    46570, 42443, 38312, 34185, 62830, 58703, 54572, 50445,
    13538, 9411, 5280, 1153, 29798, 25671, 21540, 17413,
    42971, 47098, 34713, 38840, 59231, 63358, 50973, 55100,
    9939, 14066, 1681, 5808, 26199, 30326, 17941, 22068,
    55628, 51565, 63758, 59695, 39368, 35305, 47498, 43435,
    22596, 18533, 30726, 26663, 6336, 2273, 14466, 10403,
    52093, 56156, 60223, 64286, 35833, 39896, 43963, 48026,
    19061, 23124, 27191, 31254, 2801, 6864, 10931, 14994,
    64814, 60687, 56684, 52557, 48554, 44427, 40424, 36297,
    31782, 27655, 23652, 19525, 15522, 11395, 7392, 3265,
    61215, 65342, 53085, 57212, 44955, 49082, 36825, 40952,
    28183, 32310, 20053, 24180, 11923, 16050, 3793, 7920
>>

(* the turn of the loop with the table entry of the byte alone *)
CrcStepByteOnly(crc, byte) ==
    Xor16((crc * 256) % 65536, crc16_ccitt_table[byte + 1])

(* one turn of the while loop of ymodem_calc_crc16, on a uint16_t crc *)
CrcStep(crc, byte) ==
    Xor16((crc * 256) % 65536,
          crc16_ccitt_table[(Xor8(crc \div 256, byte) % 256) + 1])

(* the loop over buf[lo..hi] in index order, starting from crc; the range is
   halved only to keep the evaluation shallow, the bytes are fed left to right *)
RECURSIVE CrcRange(_, _, _, _)
CrcRange(crc, buf, lo, hi) ==
    IF lo > hi THEN crc
    ELSE IF lo = hi THEN CrcStep(crc, buf[lo])
    ELSE LET mid == (lo + hi) \div 2
             left == CrcRange(crc, buf, lo, mid)
         IN  IF left >= 0 THEN CrcRange(left, buf, mid + 1, hi) ELSE 0

(* ymodem_calc_crc16(buffer + off, size) *)
ymodem_calc_crc16(buf, off, size) == CrcRange(0, buf, off + 1, off + size)

(* ymodem_calc_crc16(buffer, Len(data)) on a buffer that holds data and, after
   it, the bytes of rest *)
CrcCall(data, rest) ==
    [data |-> data, crc |-> ymodem_calc_crc16(data \o rest, 0, Len(data))]

(* the bytes the strings of scenario "crc16" are made of *)
CrcBytes == {0, 1, 49, 128, 255}

(* ---- byte strings ---- *)
Zeros(n) == [k \in 1..n |-> 0]

(* memcpy(buf + off, src, Len(src)) *)
Overwrite(buf, off, src) ==
    [k \in 1..Len(buf) |->
        IF k > off /\ k <= off + Len(src) THEN src[k - off] ELSE buf[k]]

(* snprintf(..., "%d", n) for n >= 0, as ASCII digits *)
RECURSIVE DecimalDigits(_)
DecimalDigits(n) ==
    IF n < 10 THEN <<48 + n>>
    ELSE Append(DecimalDigits(n \div 10), 48 + (n % 10))

(* index of the last occurrence of byte c in s, 0 if none (strrchr) *)
LastIndexOf(s, c) ==
    LET hits == {k \in 1..Len(s) : s[k] = c}
    IN  IF hits = {} THEN 0 ELSE CHOOSE k \in hits : \A j \in hits : j <= k

(* ymodem_get_path_basename: after the last '/', else after the last '\' *)
ymodem_get_path_basename(p) ==
    IF LastIndexOf(p, 47) # 0 THEN SubSeq(p, LastIndexOf(p, 47) + 1, Len(p))
    ELSE IF LastIndexOf(p, 92) # 0 THEN SubSeq(p, LastIndexOf(p, 92) + 1, Len(p))
    ELSE p

(* strncpy(ctx->filename, basename, 255) and the terminating NUL *)
CopyFilename(basename) ==
    SubSeq(basename, 1,
           IF Len(basename) < YMODEM_MAX_FILENAME_LENGTH - 1
           THEN Len(basename) ELSE YMODEM_MAX_FILENAME_LENGTH - 1)

(* ---- bounds of the model ---- *)
(* input files have up to MaxBlocks full 1024-byte blocks plus a remainder *)
MaxBlocks == 2
(* byte patterns 0..MaxPattern of the input file *)
MaxPattern == 1
(* handshake_timeout_s ranges up to MaxTimeout *)
MaxTimeout == 2
(* the scripted peer of the receiver offers data packets with SEQ up to this *)
MaxPeerSeq == 2
(* the file of scenario "wrap" has this many full blocks and one byte more *)
WrapBlocks == 256
(* the receive attempts of one wait for 'C' of the sender's Finishing stage
   are counted up to MaxWaits *)
MaxWaits == 7
(* ymodem_calc_crc16 is called on strings of up to MaxCrcLen bytes *)
MaxCrcLen == 3
(* a peer sends up to MaxExtraInfo file info packets where the receiver waits
   for the null-filename packet *)
MaxExtraInfo == 2

(* ---- the input file and the file callbacks of the sender ---- *)
(* byte at offset i (from 0) of the input file with pattern p; pattern 1 is
   all SUB so that data cannot be told from padding *)
FileByte(p, i) == IF p = 1 THEN SUB ELSE (65 + i * (p + 1)) % 256

FileContent(f) == [k \in 1..f.len |-> FileByte(f.pat, k - 1)]

Min(a, b) == IF a < b THEN a ELSE b

(* fread(buffer, 1, want, fp) at offset pos of a file of len bytes *)
file_read_callback(len, pos, want) == Min(want, len - pos)

(* the for loop of _ymodem_do_send_trans that fills one block: up to
   ReadAttempts file_read calls; the result is actual_read *)
RECURSIVE ReadLoop(_, _, _, _, _)
ReadLoop(len, pos, read_size, actual_read, retry_read) ==
    IF retry_read >= ReadAttempts THEN actual_read
    ELSE LET got == file_read_callback(len, pos + actual_read, read_size - actual_read)
         IN  IF actual_read + got = read_size THEN read_size
             ELSE ReadLoop(len, pos, read_size, actual_read + got, retry_read + 1)

(* ctx->buffer + 3 after the reads and the memset of the padding *)
BlockBuffer(f, pos, actual_read, read_size) ==
    [k \in 1..read_size |->
        IF k <= actual_read THEN FileByte(f.pat, pos + k - 1) ELSE SUB]

(* SOH only below 128 bytes *)
PacketTypeBelow(actual_read) ==
    IF actual_read < 128 THEN YMODEM_CODE_SOH ELSE YMODEM_CODE_STX

(* header and payload size chosen for a block of actual_read bytes *)
PacketType(actual_read) ==
    IF actual_read <= 128 THEN YMODEM_CODE_SOH ELSE YMODEM_CODE_STX

PacketDataSize(code) ==
    IF code = YMODEM_CODE_SOH THEN YMODEM_SOH_DATA_SIZE ELSE YMODEM_STX_DATA_SIZE

(* ---- packets ---- *)
(* the packet _ymodem_send_packet assembles in ctx->send_buffer *)
(* the packet with the two bytes of the CRC in little-endian order *)
BuildPacketLittle(code, seq, data, data_size) ==
    LET crc == ymodem_calc_crc16(data, 0, data_size)
    IN  <<code, seq, Not8(seq)>> \o SubSeq(data, 1, data_size)
            \o <<crc % 256, (crc \div 256) % 256>>

BuildPacket(code, seq, data, data_size) ==
    LET crc == ymodem_calc_crc16(data, 0, data_size)
    IN  <<code, seq, Not8(seq)>> \o SubSeq(data, 1, data_size)
            \o <<(crc \div 256) % 256, crc % 256>>

(* the parameter checks of _ymodem_send_packet *)
SendPacketCheck(code, data_size) ==
    IF code = YMODEM_CODE_SOH /\ data_size # YMODEM_SOH_DATA_SIZE THEN YMODEM_ERR_DSZ
    ELSE IF code = YMODEM_CODE_STX /\ data_size # YMODEM_STX_DATA_SIZE THEN YMODEM_ERR_DSZ
    ELSE YMODEM_ERR_NONE

(* packet size the receiver derives from the header byte, 0 if none *)
PacketSizeOf(hdr) ==
    IF hdr = YMODEM_CODE_SOH THEN YMODEM_SOH_PACKET_SIZE
    ELSE IF hdr = YMODEM_CODE_STX THEN YMODEM_STX_PACKET_SIZE
    ELSE 0

(* the checks of a packet without the comparison of the CRC *)
ymodem_receive_packet_nocrc(buf, received) ==
    LET packet_size == IF buf[1] = YMODEM_CODE_SOH THEN YMODEM_SOH_PACKET_SIZE
                       ELSE IF buf[1] = YMODEM_CODE_STX THEN YMODEM_STX_PACKET_SIZE
                       ELSE 0
    IN  IF packet_size = 0 THEN YMODEM_ERR_CODE
        ELSE IF received # packet_size - 1 THEN YMODEM_ERR_TMO
        ELSE IF buf[3] # Not8(buf[2]) THEN YMODEM_ERR_SEQ
        ELSE YMODEM_ERR_NONE

(* a validation that tests the CRC before the SEQ complement *)
ymodem_receive_packet_crc_first(buf, received) ==
    LET packet_size == PacketSizeOf(buf[1])
        data_size == packet_size - 5
    IN  IF packet_size = 0 THEN YMODEM_ERR_CODE
        ELSE IF received # packet_size - 1 THEN YMODEM_ERR_TMO
        ELSE IF buf[packet_size - 1] * 256 + buf[packet_size]
                    # ymodem_calc_crc16(buf, 3, data_size) THEN YMODEM_ERR_CRC
        ELSE IF buf[3] # Not8(buf[2]) THEN YMODEM_ERR_SEQ
        ELSE YMODEM_ERR_NONE

(* _ymodem_receive_packet on a buffer whose first byte is the header and into
   which `received` further bytes were read: its return value *)
ymodem_receive_packet(buf, received) ==
    LET packet_size == PacketSizeOf(buf[1])
        data_size == packet_size - 5
    IN  IF packet_size = 0 THEN YMODEM_ERR_CODE
        ELSE IF received # packet_size - 1 THEN YMODEM_ERR_TMO
        ELSE IF buf[3] # Not8(buf[2]) THEN YMODEM_ERR_SEQ
        ELSE IF buf[packet_size - 1] * 256 + buf[packet_size]
                    # ymodem_calc_crc16(buf, 3, data_size) THEN YMODEM_ERR_CRC
        ELSE YMODEM_ERR_NONE

(* _ymodem_receive_packet on a buffer that holds the header hdr, after which
   the transport delivers the bytes of rest *)
PacketCall(hdr, rest) ==
    [hdr |-> hdr, rest |-> rest,
     ret |-> ymodem_receive_packet(
                 Overwrite([k \in 1..YMODEM_STX_PACKET_SIZE |->
                               IF k = 1 THEN hdr ELSE 0], 1, rest),
                 Len(rest))]

NoPacketCall == [hdr |-> 0, rest |-> <<>>, ret |-> YMODEM_ERR_NONE]

(* ---- packet 0 ---- *)
(* packet 0 refused only when name, NUL and size exceed the payload *)
ymodem_prepare_file_info_packet_over(buffer, filename, file_size) ==
    LET cleared == Overwrite(buffer, 0, Zeros(YMODEM_SOH_DATA_SIZE))
        named == Overwrite(cleared, 0, filename)
        file_size_str == DecimalDigits(file_size)
    IN  IF Len(filename) >= YMODEM_SOH_DATA_SIZE
        THEN [ret |-> YMODEM_ERR_DSZ, buffer |-> cleared]
        ELSE IF Len(filename) + 1 + Len(file_size_str) > YMODEM_SOH_DATA_SIZE
        THEN [ret |-> YMODEM_ERR_DSZ, buffer |-> named]
        ELSE [ret |-> YMODEM_ERR_NONE,
              buffer |-> Overwrite(named, Len(filename) + 1, file_size_str)]

(* _ymodem_prepare_file_info_packet: return value and ctx->buffer + 3 *)
ymodem_prepare_file_info_packet(buffer, filename, file_size) ==
    LET cleared == Overwrite(buffer, 0, Zeros(YMODEM_SOH_DATA_SIZE))
        name_len == Len(filename)
        named == Overwrite(cleared, 0, filename)
        file_size_str == DecimalDigits(file_size)
        size_len == Len(file_size_str)
    IN  IF name_len >= YMODEM_SOH_DATA_SIZE
        THEN [ret |-> YMODEM_ERR_DSZ, buffer |-> cleared]
        ELSE IF name_len + 1 + size_len >= YMODEM_SOH_DATA_SIZE
        THEN [ret |-> YMODEM_ERR_DSZ, buffer |-> named]
        ELSE [ret |-> YMODEM_ERR_NONE,
              buffer |-> Overwrite(named, name_len + 1, file_size_str)]

(* length of the filename the receiver finds at buf[3..]: up to the first NUL,
   at most YMODEM_MAX_FILENAME_LENGTH - 1 *)
NameLen(buf) ==
    CHOOSE name_len \in 0..(YMODEM_MAX_FILENAME_LENGTH - 1) :
        /\ name_len = YMODEM_MAX_FILENAME_LENGTH - 1 \/ buf[3 + name_len + 1] = 0
        /\ \A k \in 0..(name_len - 1) : buf[3 + k + 1] # 0

(* the while loop of _ymodem_parse_file_info over the ASCII digits at C index k *)
RECURSIVE ParseSize(_, _, _)
ParseSize(buf, k, acc) ==
    IF k + 1 <= Len(buf) /\ buf[k + 1] >= 48 /\ buf[k + 1] <= 57
    THEN ParseSize(buf, k + 1, acc * 10 + (buf[k + 1] - 48))
    ELSE acc

(* packet 0 parsed without its size field *)
ymodem_parse_file_info_nosize(buf) ==
    IF buf[4] = 0 \/ NameLen(buf) = 0
    THEN [ret |-> YMODEM_ERR_FILE, filename |-> <<>>, file_size |-> 0]
    ELSE [ret |-> YMODEM_ERR_NONE,
          filename |-> SubSeq(buf, 4, 3 + NameLen(buf)), file_size |-> 0]

(* _ymodem_parse_file_info: return value, filename and file size *)
ymodem_parse_file_info(buf) ==
    LET name_len == NameLen(buf)
        size_at == 3 + name_len + 1
    IN  IF buf[4] = 0 \/ name_len = 0
        THEN [ret |-> YMODEM_ERR_FILE, filename |-> <<>>, file_size |-> 0]
        ELSE [ret |-> YMODEM_ERR_NONE,
              filename |-> SubSeq(buf, 4, 3 + name_len),
              file_size |-> IF buf[size_at + 1] # 0
                            THEN ParseSize(buf, size_at, 0) ELSE 0]

(* ---- state ---- *)
VARIABLES
    scen,        \* how the two calls are connected (see Scenarios)
    file,        \* the sender's input file and the path given for it: [len, pat, path]
    hs_timeout,  \* the argument handshake_timeout_s of both calls
    snd,         \* ymodem_send_file: its context, its locals, its file callbacks
    rcv,         \* ymodem_receive_file: its context, its locals, its file callbacks
    out,         \* the bytes passed to the receiver's file_write, in order
    verified,    \* leading bytes of the output compared with the input and no
                 \* longer held in out (scenario "wrap"; 0 elsewhere)
    s2r,         \* bytes sent by the sender and not yet received
    r2s,         \* bytes sent by the receiver and not yet received
    slog,        \* packets and bytes the sender handed to comm_send (paired runs)
    rlog,        \* bytes the receiver handed to comm_send (paired runs)
    injected,    \* the transport has replaced an ACK by CAN (scenario "can")
    broken,      \* the transport callback that has begun to fail (scenario "abort")
    prev,        \* what the first pair of calls did, once a second pair runs
    calc,        \* the last call of ymodem_calc_crc16: its input and its result
    pcall        \* the last call of _ymodem_receive_packet: its input and its result

vars == <<scen, file, hs_timeout, snd, rcv, out, verified,
          s2r, r2s, slog, rlog, injected, broken, prev, calc, pcall>>

(* "clean": sender and receiver over a loss-free in-order transport;
   "ackloss": the ACK of the first attempt of each data packet is replaced by
   a timeout; "flip": one bit of the first transmission of each packet is
   inverted; "crc": one bit of the CRC of the first transmission of each data
   packet is inverted; "can": one ACK of a data packet is replaced by CAN;
   "sender": ymodem_send_file against an arbitrary peer and failing
   callbacks; "receiverhs", "receiver", "receiverfin": ymodem_receive_file with
   failing callbacks against a peer that is arbitrary during the handshake,
   the transfer, the finish;
   "longname": as "clean", with basenames around the capacity of packet 0;
   "abort": as "clean", until one transport callback of one side begins to
   fail and fails from then on;
   "sendinit", "recvinit": ymodem_send_init, ymodem_receive_init on a context
   that holds whatever was in its memory;
   "cleanup": the cleanup functions, twice, on contexts as a transfer can
   leave them at any point;
   "reuse": two transfers one after the other on the same two contexts, over
   a transport that delivers a stray byte before the first EOT of each;
   "wrap": as "clean", with a file of more than 255 data packets, and an
   output file that compares what it is given with the input;
   "crc16": calls of ymodem_calc_crc16 on byte strings that grow by one
   byte from call to call;
   "packet": calls of _ymodem_receive_packet on what a transport delivers
   after an SOH or STX header: a whole packet, one cut short, and packets
   with a wrong SEQ complement, a wrong CRC or both;
   "queued": the sender is called late, when the receiver has sent one 'C'
   and waited for an answer in vain, so that 'C' bytes are queued in the
   transport when the sender starts; one bit of the CRC of the first
   transmission of a data packet may be inverted *)
Scenarios ==
    {"clean", "ackloss", "flip", "crc", "can",
     "sender", "receiverhs", "receiver", "receiverfin",
     "longname", "abort", "sendinit", "recvinit", "cleanup", "reuse", "wrap",
     "crc16", "packet", "queued"}

Paired ==
    scen \in {"clean", "ackloss", "flip", "crc", "can", "longname", "abort", "reuse",
              "wrap", "queued"}

Lengths(sc) ==
    CASE sc = "clean" ->
            {0, 1, 3, 128, 129, 1023, 1024, 1025,
             MaxBlocks * YMODEM_STX_DATA_SIZE, MaxBlocks * YMODEM_STX_DATA_SIZE + 5}
      [] sc = "ackloss" -> {1, 1025}
      [] sc = "flip" -> {1, 1025}
      [] sc = "crc" -> {3, 129, MaxBlocks * YMODEM_STX_DATA_SIZE + 5}
      [] sc = "can" -> {1, MaxBlocks * YMODEM_STX_DATA_SIZE + 5}
      [] sc = "sender" -> {0, 1025}
      [] sc = "longname" -> {0, 1025}
      [] sc = "abort" -> {1}
      [] sc = "reuse" -> {1, 1025}
      [] sc = "wrap" -> {WrapBlocks * YMODEM_STX_DATA_SIZE + 1}
      [] sc = "queued" -> {1, 1025}
      [] OTHER -> {0}

Patterns(sc) == IF sc = "clean" THEN 0..MaxPattern ELSE {0}

NegativeTimeouts == {-1}

Timeouts(sc) ==
    CASE sc = "clean" -> 1..MaxTimeout
      [] sc \in {"sender", "receiverhs"} -> NegativeTimeouts \cup {0, MaxTimeout}
      [] OTHER -> {MaxTimeout}

(* the path given to ymodem_send_file: "d/a.bin" *)
FilePath == <<100, 47, 97, 46, 98, 105, 110>>

(* "d/" followed by a basename of n letters *)
NamedPath(n) == <<100, 47>> \o [k \in 1..n |-> 97 + (k % 26)]

(* basename lengths of scenario "longname": none, the longest that fit with a
   4-digit and with a 1-digit size, and those that do not fit *)
NameLengths == {0, 122, 125, 126, 127, 128, 300}

Paths(sc) == IF sc = "longname" THEN {NamedPath(n) : n \in NameLengths} ELSE {FilePath}

(* ---- ymodem_send_init, ymodem_receive_init ---- *)
(* the members of ymodem_callbacks_t *)
CallbackNames ==
    {"file_open", "file_read", "file_write", "file_close", "file_size",
     "comm_send", "comm_receive", "get_time_ms", "delay_ms"}

(* the callbacks ymodem_send_init tests *)
SenderRequired ==
    {"comm_send", "comm_receive", "file_open", "file_read", "file_close", "file_size"}

(* the callbacks ymodem_receive_init tests *)
ReceiverRequired ==
    {"comm_send", "comm_receive", "file_open", "file_write", "file_close"}

(* arguments of an init call: which pointer argument is NULL, the buffer
   sizes, which member of *callbacks is NULL *)
ValidArgs ==
    [null |-> "none", buffer_size |-> YMODEM_MAX_PACKET_SIZE,
     send_buffer_size |-> YMODEM_MAX_PACKET_SIZE, missing |-> "none"]

BufferSizes == {YMODEM_MAX_PACKET_SIZE - 1, YMODEM_MAX_PACKET_SIZE}

SendInitArgs ==
    [null : {"none", "ctx", "callbacks", "buffer", "send_buffer"},
     buffer_size : BufferSizes, send_buffer_size : BufferSizes,
     missing : {"none"} \cup CallbackNames]

ReceiveInitArgs ==
    [null : {"none", "ctx", "callbacks", "buffer"},
     buffer_size : BufferSizes, send_buffer_size : {YMODEM_MAX_PACKET_SIZE},
     missing : {"none"} \cup CallbackNames]

(* ymodem_send_init with file_size left out of the required callbacks *)
ymodem_send_init_lax(a) ==
    IF a.null # "none" THEN YMODEM_ERR_CODE
    ELSE IF a.buffer_size < YMODEM_MAX_PACKET_SIZE
            \/ a.send_buffer_size < YMODEM_MAX_PACKET_SIZE THEN YMODEM_ERR_DSZ
    ELSE IF a.missing \in SenderRequired \ {"file_size"} THEN YMODEM_ERR_CODE
    ELSE YMODEM_ERR_NONE

(* the return value of ymodem_send_init *)
ymodem_send_init(a) ==
    IF a.null # "none" THEN YMODEM_ERR_CODE
    ELSE IF a.buffer_size < YMODEM_MAX_PACKET_SIZE
            \/ a.send_buffer_size < YMODEM_MAX_PACKET_SIZE THEN YMODEM_ERR_DSZ
    ELSE IF a.missing \in SenderRequired THEN YMODEM_ERR_CODE
    ELSE YMODEM_ERR_NONE

(* the return value of ymodem_receive_init *)
ymodem_receive_init(a) ==
    IF a.null # "none" THEN YMODEM_ERR_CODE
    ELSE IF a.buffer_size < YMODEM_MAX_PACKET_SIZE THEN YMODEM_ERR_DSZ
    ELSE IF a.missing \in ReceiverRequired THEN YMODEM_ERR_CODE
    ELSE YMODEM_ERR_NONE

(* the context members an init call assigns, as it leaves them *)
InitFields(C) ==
    [C EXCEPT !.stage = YMODEM_STAGE_NONE, !.file_handle = "NULL", !.file_size = 0,
              !.packet_seq = 0, !.error_count = 0, !.filename = <<>>]

(* what the memory of a context may hold before init *)
Uninitialised ==
    {[stage |-> YMODEM_STAGE_TRANSMITTING, file_handle |-> "FILE", file_size |-> 7,
      packet_seq |-> 9, error_count |-> 4],
     [stage |-> YMODEM_STAGE_FINISHED, file_handle |-> "NULL", file_size |-> 0,
      packet_seq |-> 0, error_count |-> 1]}

(* contexts as a transfer leaves them when it is abandoned or has returned:
   the stage it reached and the file handle it holds *)
HeldContexts ==
    [stage : {YMODEM_STAGE_NONE, YMODEM_STAGE_TRANSMITTING, YMODEM_STAGE_FINISHED},
     file_handle : {"NULL", "FILE"}]

(* the scenarios in which the side makes no call of the transfer functions *)
SenderOff(sc) == sc \in {"receiverhs", "receiver", "receiverfin", "recvinit", "crc16", "packet"}

ReceiverOff(sc) == sc \in {"sender", "sendinit", "crc16", "packet"}

(* ymodem_send_init / ymodem_receive_init have run *)
SndInit(sc) ==
    [pc |-> IF SenderOff(sc) THEN "off" ELSE "open", args |-> ValidArgs,
     stage |-> YMODEM_STAGE_NONE, file_handle |-> "NULL", file_size |-> 0,
     packet_seq |-> 0, error_count |-> 0, filename |-> <<>>,
     buffer |-> Zeros(YMODEM_STX_DATA_SIZE),
     i |-> 0, got_ack |-> FALSE, got_c |-> FALSE, retries |-> 0,
     packet_type |-> YMODEM_CODE_STX, read_size |-> YMODEM_STX_DATA_SIZE,
     actual_read |-> 0, rx |-> 0, sent |-> 0, waits |-> 0, ret |-> YMODEM_ERR_NONE,
     pos |-> 0, opens |-> 0, closes |-> 0]

RcvInit(sc) ==
    [pc |-> IF ReceiverOff(sc) THEN "off" ELSE "hs_begin", args |-> ValidArgs,
     stage |-> YMODEM_STAGE_NONE, file_handle |-> "NULL", file_size |-> 0,
     packet_seq |-> 0, error_count |-> 0, filename |-> <<>>,
     buffer |-> Zeros(YMODEM_STX_PACKET_SIZE),
     i |-> 0, seq |-> 0, data_size |-> 0, expected_seq |-> 0,
     total_received |-> 0, retries |-> 0, rx |-> 0, waits |-> 0,
     ret |-> YMODEM_ERR_NONE,
     info_filename |-> <<>>, info_filesize |-> 0, opens |-> 0, closes |-> 0]

(* no pair of calls has completed yet *)
NoPrev ==
    [done |-> FALSE, slog |-> <<>>, rlog |-> <<>>, out |-> <<>>,
     sret |-> YMODEM_ERR_NONE, rret |-> YMODEM_ERR_NONE]

(* the context of a side at the start of a scenario *)
Starts(C, sc, initsc) ==
    IF sc = initsc
    THEN {[C EXCEPT !.pc = "init", !.stage = g.stage, !.file_handle = g.file_handle,
                    !.file_size = g.file_size, !.packet_seq = g.packet_seq,
                    !.error_count = g.error_count] : g \in Uninitialised}
    ELSE IF sc = "cleanup"
    THEN {[C EXCEPT !.pc = "held", !.stage = h.stage, !.file_handle = h.file_handle,
                    !.opens = IF h.file_handle = "NULL" THEN 0 ELSE 1] :
             h \in HeldContexts}
    ELSE {C}

Init ==
    /\ scen \in Scenarios
    /\ file \in [len : Lengths(scen), pat : Patterns(scen), path : Paths(scen)]
    /\ hs_timeout \in Timeouts(scen)
    /\ snd \in Starts(SndInit(scen), scen, "sendinit")
    /\ rcv \in Starts(RcvInit(scen), scen, "recvinit")
    /\ out = <<>>
    /\ verified = 0
    /\ s2r = <<>>
    /\ r2s = <<>>
    /\ slog = <<>>
    /\ rlog = <<>>
    /\ injected = FALSE
    /\ broken = "no"
    /\ prev = NoPrev
    /\ calc = CrcCall(<<>>, <<>>)
    /\ pcall = NoPacketCall

(* ---- the output file ---- *)

(* the bytes of the input file after its first n bytes *)
InputFrom(n) == [k \in 1..(file.len - n) |-> FileByte(file.pat, n + k - 1)]

(* the output file of scenario "wrap" compares what it is given with the
   input at the same offset, and holds only what has differed and what
   follows it *)
Compares(chunk) ==
    /\ scen = "wrap"
    /\ out = <<>>
    /\ verified + Len(chunk) <= file.len
    /\ \A k \in 1..Len(chunk) : chunk[k] = FileByte(file.pat, verified + k - 1)

(* file_write(file_handle, chunk, Len(chunk)) of the receiver *)
FileWrite(chunk) ==
    IF Compares(chunk)
    THEN verified' = verified + Len(chunk) /\ out' = out
    ELSE out' = out \o chunk /\ verified' = verified

(* the number of bytes passed to file_write so far *)
OutputLen == verified + Len(out)

(* the bytes passed to file_write are the bytes of the input file *)
OutputIsInput == OutputLen = file.len /\ out = InputFrom(verified)

(* ---- the transport and the peers ---- *)
SenderRecvPcs ==
    {"hs_wait", "hs_ack", "data_reply", "eot1_reply", "eot2_reply", "fin_c", "fin_ack"}

SenderSendPcs == {"hs_send0", "data_send", "eot1_send", "eot2_send", "null_send"}

ReceiverSendPcs ==
    {"hs_sendc", "hs_ack", "hs_c", "tr_nak", "tr_ack", "fin_nak1", "fin_nak2",
     "fin_ack", "fin_c", "fin_final_ack", "fin_eot_ack"}

ReceiverBytePcs == {"hs_recv", "tr_recv", "fin_eot1", "fin_eot2", "fin_recv"}

ReceiverPacketPcs == {"hs_pkt", "tr_pkt", "fin_pkt"}

(* the side is not inside ymodem_send_file or ymodem_receive_file *)
Returned(pc) ==
    pc \in {"off", "done", "cleaned", "cleaned2", "init", "ready", "refused", "held"}

(* the sender will put no byte on the wire before it is sent one *)
SenderIdle ==
    \/ Returned(snd.pc)
    \/ snd.pc \in SenderRecvPcs /\ r2s = <<>>
    \/ scen = "queued" /\ snd.pc = "open" /\ rcv.pc = "hs_recv" /\ rcv.i = 0

(* the receiver will put no byte on the wire before it is sent one *)
ReceiverIdle ==
    \/ Returned(rcv.pc)
    \/ rcv.pc \in ReceiverBytePcs /\ s2r = <<>>
    \/ rcv.pc \in ReceiverPacketPcs /\ Len(s2r) < PacketSizeOf(rcv.buffer[1]) - 1

(* bytes an arbitrary peer may send to the sender; 0 stands for any other byte *)
PeerReplies ==
    {YMODEM_CODE_ACK, YMODEM_CODE_NAK, YMODEM_CODE_C, YMODEM_CODE_CAN, YMODEM_CODE_EOT, 0}

(* what comm_send may report for n bytes: all of them on a sound transport;
   nothing, or one byte short, when the callback fails *)
SendCounts(n) == IF Paired THEN {n} ELSE {0, n} \cup ({n - 1} \ {0})

(* comm_send of the sender, refused once it is the callback that fails *)
SenderSendCounts(n) == IF broken = "snd_send" THEN {0} ELSE SendCounts(n)

(* comm_send of the receiver *)
ReceiverSendCounts(n) == IF broken = "rcv_send" THEN {0} ELSE SendCounts(n)

(* results of one ymodem_receive_byte of the sender: the value returned and
   what is left in the transport.  A receive times out only when nothing is
   in flight and the peer is itself waiting or has returned. *)
SenderByteInputs ==
    IF broken = "snd_recv" THEN {[ret |-> YMODEM_ERR_TMO, rest |-> r2s]}
    ELSE IF scen = "sender"
    THEN {[ret |-> b, rest |-> r2s] : b \in PeerReplies \cup {YMODEM_ERR_TMO}}
    ELSE IF r2s # <<>>
    THEN IF scen = "ackloss" /\ snd.pc = "data_reply" /\ snd.retries = 0
                /\ Head(r2s) = YMODEM_CODE_ACK
         THEN {[ret |-> YMODEM_ERR_TMO, rest |-> Tail(r2s)]}
         ELSE {[ret |-> Head(r2s), rest |-> Tail(r2s)]}
    ELSE IF ReceiverIdle THEN {[ret |-> YMODEM_ERR_TMO, rest |-> r2s]}
    ELSE {}

(* bit b of the byte at index o of pkt inverted *)
FlipBit(pkt, o, b) == [pkt EXCEPT ![o] = Xor8(@, 2 ^ b)]

FlipBits == 0..7

(* byte positions hit in a packet of n bytes: header, SEQ, ~SEQ, first and
   last payload byte, both CRC bytes *)
FlipOffsets(n) == {1, 2, 3, 4, n - 2, n - 1, n}

(* what the transport delivers for a packet the sender sends; first: this is
   the first transmission of the packet; data: it is a data packet *)
Wires(pkt, first, data) ==
    IF scen = "flip" /\ first
    THEN {FlipBit(pkt, o, b) : o \in FlipOffsets(Len(pkt)), b \in FlipBits}
    ELSE IF scen = "crc" /\ first /\ data
    THEN {FlipBit(pkt, o, b) : o \in {Len(pkt) - 1, Len(pkt)}, b \in FlipBits}
    ELSE IF scen = "queued" /\ first /\ data
    THEN {pkt, FlipBit(pkt, Len(pkt), 0)}
    ELSE {pkt}

(* a byte that is no packet header and no control byte of the protocol: '?' *)
Stray == 63

(* what the transport delivers for an EOT of the first loop of
   _ymodem_do_send_fin; first: it is the first EOT of the call *)
EotWire(first) ==
    IF scen = "reuse" /\ first THEN <<Stray, YMODEM_CODE_EOT>> ELSE <<YMODEM_CODE_EOT>>

(* record of one send of the sender, kept in paired runs *)
PacketEntry(pkt, off, fill, retry) ==
    [code |-> pkt[1], seq |-> pkt[2], n |-> Len(pkt) - 5, off |-> off,
     fill |-> fill, retry |-> retry,
     ok |-> \A k \in 1..(Len(pkt) - 5) :
                pkt[3 + k] = IF k <= fill THEN FileByte(file.pat, off + k - 1) ELSE SUB]

ByteEntry(b) ==
    [code |-> b, seq |-> 0, n |-> 0, off |-> 0, fill |-> 0, retry |-> 0, ok |-> TRUE]

(* ---- ymodem_send_file ---- *)
(* a return that leaves the file open *)
SReturnOpen(S, r) == [S EXCEPT !.ret = r, !.pc = "done"]

(* an error or final return of ymodem_send_file after the file was opened:
   file_close, file_handle = NULL, return r *)
SReturn(S, r) ==
    [S EXCEPT !.closes = @ + 1, !.file_handle = "NULL", !.ret = r, !.pc = "done"]

(* _ymodem_do_send_trans returned YMODEM_ERR_NONE: entry of _ymodem_do_send_fin *)
SFinBegin(S) ==
    [S EXCEPT !.stage = YMODEM_STAGE_FINISHING, !.retries = 0, !.pc = "eot1_send"]

(* one turn of while (1) of _ymodem_do_send_trans up to the first send *)
STransNext(S, f) ==
    LET actual == ReadLoop(f.len, S.pos, YMODEM_STX_DATA_SIZE, 0, 0)
    IN  IF actual = 0
        THEN SFinBegin([S EXCEPT !.actual_read = 0,
                                 !.packet_type = YMODEM_CODE_STX,
                                 !.read_size = YMODEM_STX_DATA_SIZE])
        ELSE [S EXCEPT
                !.buffer = BlockBuffer(f, S.pos, actual, YMODEM_STX_DATA_SIZE),
                !.pos = @ + actual,
                !.actual_read = actual,
                !.stage = IF actual < YMODEM_STX_DATA_SIZE
                          THEN YMODEM_STAGE_FINISHING ELSE @,
                !.packet_type = PacketType(actual),
                !.read_size = PacketDataSize(PacketType(actual)),
                !.retries = 0,
                !.pc = "data_send"]

(* entry of _ymodem_do_send_trans *)
STransBegin(S, f) ==
    STransNext([S EXCEPT !.stage = YMODEM_STAGE_TRANSMITTING, !.error_count = 0], f)

(* _ymodem_do_send_handshake after its first loop ended with i # timeout_s *)
SHsPrepare(S) ==
    LET r == ymodem_prepare_file_info_packet(S.buffer, S.filename, S.file_size)
    IN  IF r.ret # YMODEM_ERR_NONE
        THEN SReturn([S EXCEPT !.buffer = r.buffer], r.ret)
        ELSE [S EXCEPT !.buffer = r.buffer, !.pc = "hs_send0"]

(* a wait for 'C' that makes one receive attempt more *)
SHsLoopOneMore(S, i, timeout_s) ==
    IF i < timeout_s + 1 THEN [S EXCEPT !.i = i, !.pc = "hs_wait"]
    ELSE SReturn([S EXCEPT !.i = i], YMODEM_ERR_TMO)

(* the first loop of _ymodem_do_send_handshake when its test is reached with i *)
SHsLoop(S, i, timeout_s) ==
    IF i < timeout_s THEN [S EXCEPT !.i = i, !.pc = "hs_wait"]
    ELSE IF i = timeout_s THEN SReturn([S EXCEPT !.i = i], YMODEM_ERR_TMO)
    ELSE SHsPrepare([S EXCEPT !.i = i])

(* ymodem_send_file up to the first receive: file_open, file_size, basename *)
S_Open ==
    /\ snd.pc = "open"
    /\ \E opened \in (IF Paired THEN {TRUE} ELSE {TRUE, FALSE}),
          size \in (IF Paired THEN {file.len} ELSE {file.len, -1}) :
          snd' = IF ~opened
                 THEN [snd EXCEPT !.file_handle = "NULL", !.ret = YMODEM_ERR_FILE,
                                  !.pc = "done"]
                 ELSE LET S == [snd EXCEPT !.file_handle = "FILE", !.opens = @ + 1,
                                           !.pos = 0, !.file_size = size]
                      IN  IF size < 0 THEN SReturn(S, YMODEM_ERR_FILE)
                          ELSE SHsLoop(
                                [S EXCEPT
                                   !.filename =
                                       CopyFilename(ymodem_get_path_basename(file.path)),
                                   !.stage = YMODEM_STAGE_ESTABLISHING],
                                0, hs_timeout)
    /\ UNCHANGED <<scen, file, hs_timeout, rcv, out, verified, s2r, r2s, slog, rlog, injected, broken, prev, calc, pcall>>

(* the receive of the first loop of _ymodem_do_send_handshake *)
S_HsWait ==
    /\ snd.pc = "hs_wait"
    /\ \E in \in SenderByteInputs :
          /\ r2s' = in.rest
          /\ snd' = IF in.ret = YMODEM_CODE_C
                    THEN SHsPrepare([snd EXCEPT !.rx = in.ret])
                    ELSE SHsLoop([snd EXCEPT !.rx = in.ret], snd.i + 1, hs_timeout)
    /\ UNCHANGED <<scen, file, hs_timeout, rcv, out, verified, s2r, slog, rlog, injected, broken, prev, calc, pcall>>

(* _ymodem_send_packet of packet 0 *)
S_HsSend0 ==
    /\ snd.pc = "hs_send0"
    /\ LET pkt == BuildPacket(YMODEM_CODE_SOH, 0, snd.buffer, YMODEM_SOH_DATA_SIZE)
       IN  \E cnt \in SenderSendCounts(Len(pkt)), w \in Wires(pkt, TRUE, FALSE) :
              /\ snd' = IF cnt = 0
                        THEN SReturn([snd EXCEPT !.sent = cnt], YMODEM_ERR_CODE)
                        ELSE [snd EXCEPT !.sent = cnt, !.got_ack = FALSE,
                                         !.got_c = FALSE, !.i = 0, !.pc = "hs_ack"]
              /\ s2r' = IF Paired /\ cnt # 0 THEN s2r \o w ELSE s2r
              /\ slog' = IF Paired THEN Append(slog, PacketEntry(pkt, 0, 0, 0)) ELSE slog
    /\ UNCHANGED <<scen, file, hs_timeout, rcv, out, verified, r2s, rlog, injected, broken, prev, calc, pcall>>

(* one turn of the ACK/C loop of _ymodem_do_send_handshake *)
(* the for loop after packet 0 goes on after attempt i with one attempt more *)
HsAttemptsLeftOneMore(i) == i + 1 < HandshakeReplies + 1

(* the for loop after packet 0 goes on after attempt i (i counted from 0) *)
HsAttemptsLeft(i) == i + 1 < HandshakeReplies

S_HsAck ==
    /\ snd.pc = "hs_ack"
    /\ \E in \in SenderByteInputs :
          /\ r2s' = in.rest
          /\ LET got_ack == snd.got_ack \/ in.ret = YMODEM_CODE_ACK
                 got_c == snd.got_c \/ (in.ret # YMODEM_CODE_ACK /\ in.ret = YMODEM_CODE_C)
                 S == [snd EXCEPT !.rx = in.ret, !.got_ack = got_ack \/ got_c,
                                  !.got_c = got_c]
                 established == [S EXCEPT !.stage = YMODEM_STAGE_ESTABLISHED,
                                          !.packet_seq = 1]
             IN  snd' = IF got_c
                        THEN STransBegin(established, file)
                        ELSE IF HsAttemptsLeft(snd.i)
                        THEN [S EXCEPT !.got_ack = got_ack, !.i = snd.i + 1]
                        ELSE SReturn([S EXCEPT !.got_ack = got_ack, !.i = snd.i + 1],
                                     YMODEM_ERR_ACK)
    /\ UNCHANGED <<scen, file, hs_timeout, rcv, out, verified, s2r, slog, rlog, injected, broken, prev, calc, pcall>>

(* a failed attempt inside while (retries < YMODEM_MAX_ERRORS) of
   _ymodem_do_send_trans: retries++, then the loop test and the test after it *)
(* the retry that gives up one transmission later *)
SRetryOneMore(S) ==
    IF S.retries + 1 < YMODEM_MAX_ERRORS + 1
    THEN [S EXCEPT !.retries = @ + 1, !.pc = "data_send"]
    ELSE SReturn([S EXCEPT !.retries = @ + 1], YMODEM_ERR_ACK)

SRetry(S) ==
    IF S.retries + 1 < YMODEM_MAX_ERRORS
    THEN [S EXCEPT !.retries = @ + 1, !.pc = "data_send"]
    ELSE SReturn([S EXCEPT !.retries = @ + 1], YMODEM_ERR_ACK)

(* the reply to a data packet taken without a case for CAN *)
DataReplyNoCan(ret) ==
    IF ret = YMODEM_CODE_ACK \/ ret = YMODEM_CODE_C THEN "accept" ELSE "retry"

(* how _ymodem_do_send_trans takes the reply to a data packet *)
DataReply(ret) ==
    IF ret = YMODEM_CODE_ACK THEN "accept"
    ELSE IF ret = YMODEM_CODE_NAK THEN "retry"
    ELSE IF ret = YMODEM_CODE_C THEN "accept"
    ELSE IF ret = YMODEM_CODE_CAN THEN "cancel"
    ELSE "retry"

(* the sequence number counted on without the mask of 8 bits *)
NextSeqNoWrap(seq) == seq + 1

(* the sequence number left as it is after an accepted packet *)
NextSeqStuck(seq) == seq

(* ctx->packet_seq after an accepted data packet *)
NextSeq(seq) == (seq + 1) % 256

(* _ymodem_send_packet of the current data packet *)
S_DataSend ==
    /\ snd.pc = "data_send"
    /\ LET pkt == BuildPacket(snd.packet_type, snd.packet_seq, snd.buffer, snd.read_size)
           chk == SendPacketCheck(snd.packet_type, snd.read_size)
       IN  \E cnt \in SenderSendCounts(Len(pkt)), w \in Wires(pkt, snd.retries = 0, TRUE) :
              /\ snd' = IF chk # YMODEM_ERR_NONE THEN SRetry(snd)
                        ELSE IF cnt = 0 THEN SRetry([snd EXCEPT !.sent = cnt])
                        ELSE [snd EXCEPT !.sent = cnt, !.pc = "data_reply"]
              /\ s2r' = IF Paired /\ cnt # 0 THEN s2r \o w ELSE s2r
              /\ slog' = IF Paired
                         THEN Append(slog, PacketEntry(pkt, snd.pos - snd.actual_read,
                                                       snd.actual_read, snd.retries))
                         ELSE slog
    /\ UNCHANGED <<scen, file, hs_timeout, rcv, out, verified, r2s, rlog, injected, broken, prev, calc, pcall>>

(* the receive after a data packet and the rest of the loop turn *)
S_DataReply ==
    /\ snd.pc = "data_reply"
    /\ \E in \in SenderByteInputs :
          /\ r2s' = in.rest
          /\ LET S == [snd EXCEPT !.rx = in.ret]
                 acked == [S EXCEPT !.packet_seq = NextSeq(@)]
             IN  snd' = CASE DataReply(in.ret) = "accept" ->
                                IF S.stage = YMODEM_STAGE_FINISHING
                                THEN SFinBegin(acked)
                                ELSE STransNext(acked, file)
                          [] DataReply(in.ret) = "cancel" -> SReturn(S, YMODEM_ERR_CAN)
                          [] OTHER -> SRetry(S)
    /\ UNCHANGED <<scen, file, hs_timeout, rcv, out, verified, s2r, slog, rlog, injected, broken, prev, calc, pcall>>

(* ymodem_send_byte(EOT) of the first loop of _ymodem_do_send_fin *)
S_Eot1Send ==
    /\ snd.pc = "eot1_send"
    /\ \E cnt \in SenderSendCounts(1) :
          /\ snd' = IF cnt # 1 THEN SReturn(snd, YMODEM_ERR_CODE)
                    ELSE [snd EXCEPT !.pc = "eot1_reply"]
          /\ s2r' = IF Paired /\ cnt = 1 THEN s2r \o EotWire(snd.retries = 0) ELSE s2r
    /\ slog' = IF Paired THEN Append(slog, ByteEntry(YMODEM_CODE_EOT)) ELSE slog
    /\ UNCHANGED <<scen, file, hs_timeout, rcv, out, verified, r2s, rlog, injected, broken, prev, calc, pcall>>

(* the receive after the first EOT *)
S_Eot1Reply ==
    /\ snd.pc = "eot1_reply"
    /\ \E in \in SenderByteInputs :
          /\ r2s' = in.rest
          /\ LET S == [snd EXCEPT !.rx = in.ret]
             IN  snd' = IF in.ret = YMODEM_CODE_NAK
                        THEN [S EXCEPT !.retries = 0, !.pc = "eot2_send"]
                        ELSE IF S.retries + 1 < YMODEM_MAX_ERRORS
                        THEN [S EXCEPT !.retries = @ + 1, !.pc = "eot1_send"]
                        ELSE SReturn([S EXCEPT !.retries = @ + 1], YMODEM_ERR_ACK)
    /\ UNCHANGED <<scen, file, hs_timeout, rcv, out, verified, s2r, slog, rlog, injected, broken, prev, calc, pcall>>

(* ymodem_send_byte(EOT) of the second loop of _ymodem_do_send_fin *)
S_Eot2Send ==
    /\ snd.pc = "eot2_send"
    /\ \E cnt \in SenderSendCounts(1) :
          /\ snd' = IF cnt # 1 THEN SReturn(snd, YMODEM_ERR_CODE)
                    ELSE [snd EXCEPT !.pc = "eot2_reply"]
          /\ s2r' = IF Paired /\ cnt = 1 THEN Append(s2r, YMODEM_CODE_EOT) ELSE s2r
    /\ slog' = IF Paired THEN Append(slog, ByteEntry(YMODEM_CODE_EOT)) ELSE slog
    /\ UNCHANGED <<scen, file, hs_timeout, rcv, out, verified, r2s, rlog, injected, broken, prev, calc, pcall>>

(* the receive after the second EOT *)
S_Eot2Reply ==
    /\ snd.pc = "eot2_reply"
    /\ \E in \in SenderByteInputs :
          /\ r2s' = in.rest
          /\ LET S == [snd EXCEPT !.rx = in.ret]
             IN  snd' = IF in.ret = YMODEM_CODE_ACK \/ in.ret = YMODEM_CODE_NAK
                        THEN [S EXCEPT !.retries = 0, !.got_c = FALSE, !.pc = "fin_c"]
                        ELSE IF S.retries + 1 < YMODEM_MAX_ERRORS
                        THEN [S EXCEPT !.retries = @ + 1, !.pc = "eot2_send"]
                        ELSE SReturn([S EXCEPT !.retries = @ + 1], YMODEM_ERR_ACK)
    /\ UNCHANGED <<scen, file, hs_timeout, rcv, out, verified, s2r, slog, rlog, injected, broken, prev, calc, pcall>>

(* the terminator packet sent with the payload the buffer holds *)
SNullPrepareKeep(S) == [S EXCEPT !.pc = "null_send"]

(* after the wait for 'C': memset of the payload of the terminator packet *)
SNullPrepare(S) ==
    [S EXCEPT !.buffer = Overwrite(@, 0, Zeros(YMODEM_SOH_DATA_SIZE)),
              !.pc = "null_send"]

(* one receive of the wait for 'C' of _ymodem_do_send_fin; waits is the
   number of receives this wait has made and stayed in the loop after *)
S_FinC ==
    /\ snd.pc = "fin_c"
    /\ \E in \in SenderByteInputs :
          /\ in.ret = YMODEM_CODE_ACK => snd.waits < MaxWaits
          /\ r2s' = in.rest
          /\ LET S == [snd EXCEPT !.rx = in.ret, !.waits = 0]
                 W == [snd EXCEPT !.rx = in.ret, !.waits = @ + 1]
             IN  snd' = IF in.ret = YMODEM_CODE_C
                        THEN SNullPrepare([S EXCEPT !.got_c = TRUE])
                        ELSE IF in.ret = YMODEM_CODE_ACK THEN W
                        ELSE IF S.retries + 1 < YMODEM_MAX_ERRORS
                        THEN [W EXCEPT !.retries = @ + 1]
                        ELSE SNullPrepare([S EXCEPT !.retries = @ + 1])
    /\ UNCHANGED <<scen, file, hs_timeout, rcv, out, verified, s2r, slog, rlog, injected, broken, prev, calc, pcall>>

(* _ymodem_send_packet of the terminator packet (SOH, SEQ 0, zero payload) *)
S_NullSend ==
    /\ snd.pc = "null_send"
    /\ LET pkt == BuildPacket(YMODEM_CODE_SOH, 0, snd.buffer, YMODEM_SOH_DATA_SIZE)
       IN  \E cnt \in SenderSendCounts(Len(pkt)), w \in Wires(pkt, TRUE, FALSE) :
              /\ snd' = IF cnt = 0
                        THEN SReturn([snd EXCEPT !.sent = cnt], YMODEM_ERR_CODE)
                        ELSE [snd EXCEPT !.sent = cnt, !.pc = "fin_ack"]
              /\ s2r' = IF Paired /\ cnt # 0 THEN s2r \o w ELSE s2r
              /\ slog' = IF Paired THEN Append(slog, PacketEntry(pkt, 0, 0, 0)) ELSE slog
    /\ UNCHANGED <<scen, file, hs_timeout, rcv, out, verified, r2s, rlog, injected, broken, prev, calc, pcall>>

(* the receive of the final ACK and the return of ymodem_send_file *)
S_FinAck ==
    /\ snd.pc = "fin_ack"
    /\ \E in \in SenderByteInputs :
          /\ r2s' = in.rest
          /\ snd' = SReturn([snd EXCEPT !.rx = in.ret,
                                        !.stage = YMODEM_STAGE_FINISHED],
                            YMODEM_ERR_NONE)
    /\ UNCHANGED <<scen, file, hs_timeout, rcv, out, verified, s2r, slog, rlog, injected, broken, prev, calc, pcall>>

(* ymodem_send_init on the arguments a *)
S_Init ==
    /\ snd.pc = "init"
    /\ \E a \in SendInitArgs :
          snd' = IF ymodem_send_init(a) = YMODEM_ERR_NONE
                 THEN [InitFields(snd) EXCEPT !.args = a, !.ret = YMODEM_ERR_NONE,
                                              !.pc = "ready"]
                 ELSE [snd EXCEPT !.args = a, !.ret = ymodem_send_init(a),
                                  !.pc = "refused"]
    /\ UNCHANGED <<scen, file, hs_timeout, rcv, out, verified, s2r, r2s, slog, rlog, injected, broken, prev, calc, pcall>>

(* a cleanup that closes the file and keeps the handle *)
ymodem_send_cleanup_keep(S) ==
    [S EXCEPT !.closes = IF S.file_handle # "NULL" THEN @ + 1 ELSE @,
              !.stage = YMODEM_STAGE_NONE]

(* ymodem_send_cleanup on a context *)
ymodem_send_cleanup(S) ==
    [S EXCEPT !.closes = IF S.file_handle # "NULL" THEN @ + 1 ELSE @,
              !.file_handle = "NULL",
              !.stage = YMODEM_STAGE_NONE]

(* the pc after a cleanup; a second cleanup is called after an unmodified
   transfer and in scenario "cleanup" *)
AfterCleanup(pc) == IF pc = "cleaned" THEN "cleaned2" ELSE "cleaned"

CleanupPcs == {"done", "held"} \cup (IF scen \in {"clean", "cleanup"} THEN {"cleaned"} ELSE {})

(* ymodem_send_cleanup, called after ymodem_send_file returned *)
S_Cleanup ==
    /\ snd.pc \in CleanupPcs
    /\ snd' = [ymodem_send_cleanup(snd) EXCEPT !.pc = AfterCleanup(snd.pc)]
    /\ UNCHANGED <<scen, file, hs_timeout, rcv, out, verified, s2r, r2s, slog, rlog, injected, broken, prev, calc, pcall>>

SenderNext ==
    \/ S_Init \/ S_Open \/ S_HsWait \/ S_HsSend0 \/ S_HsAck \/ S_DataSend \/ S_DataReply
    \/ S_Eot1Send \/ S_Eot1Reply \/ S_Eot2Send \/ S_Eot2Reply \/ S_FinC
    \/ S_NullSend \/ S_FinAck \/ S_Cleanup

(* ---- the peer of the receiver in the scenarios without a sender ---- *)
(* header bytes the peer may send; CAN stands for every byte that is neither
   a packet header nor EOT *)
PeerHeaders ==
    {YMODEM_CODE_SOH, YMODEM_CODE_STX, YMODEM_CODE_EOT, YMODEM_CODE_CAN}

(* "a.bin" *)
PeerName == <<97, 46, 98, 105, 110>>

(* file sizes the peer announces in packet 0 *)
PeerSizes == {3, 200}

PeerData == [k \in 1..YMODEM_STX_DATA_SIZE |-> (65 + k) % 256]

(* the bytes after the header of a packet *)
PeerInfo(sz) ==
    Tail(BuildPacket(YMODEM_CODE_SOH, 0,
            ymodem_prepare_file_info_packet(Zeros(YMODEM_STX_DATA_SIZE),
                                            PeerName, sz).buffer,
            YMODEM_SOH_DATA_SIZE))

PeerInfoNoSize ==
    Tail(BuildPacket(YMODEM_CODE_SOH, 0,
            Overwrite(Zeros(YMODEM_STX_DATA_SIZE), 0, PeerName),
            YMODEM_SOH_DATA_SIZE))

PeerNull(hdr) ==
    Tail(BuildPacket(hdr, 0, Zeros(YMODEM_STX_DATA_SIZE), PacketDataSize(hdr)))

PeerBlock(hdr, q) == Tail(BuildPacket(hdr, q, PeerData, PacketDataSize(hdr)))

PeerBadCrc(rest) == FlipBit(rest, Len(rest), 0)

PeerBadSeq(rest) == [rest EXCEPT ![2] = Xor8(@, 1)]

(* what the peer may send after header hdr while the receiver is at pc:
   well-formed and malformed packets, or nothing at all *)
PeerPackets(pc, hdr) ==
    CASE pc = "hs_pkt" /\ hdr = YMODEM_CODE_SOH ->
            {PeerInfo(sz) : sz \in PeerSizes}
            \cup {PeerInfoNoSize, PeerNull(hdr), PeerBlock(hdr, 1),
                  PeerBadCrc(PeerInfo(3)), PeerBadSeq(PeerInfo(3))}
      [] pc = "tr_pkt" /\ hdr = YMODEM_CODE_SOH ->
            {PeerBlock(hdr, q) : q \in 1..MaxPeerSeq}
            \cup {PeerBadCrc(PeerBlock(hdr, 1)), <<>>}
      [] pc = "fin_pkt" /\ hdr = YMODEM_CODE_SOH ->
            {PeerNull(hdr), PeerInfo(3), PeerBlock(hdr, 1), PeerBadCrc(PeerNull(hdr))}
      [] pc = "fin_pkt" /\ hdr = YMODEM_CODE_STX -> {PeerNull(hdr), <<>>}
      [] OTHER -> {PeerBlock(hdr, 1), <<>>}

PeerRests ==
    [pc \in ReceiverPacketPcs |->
        [hdr \in {YMODEM_CODE_SOH, YMODEM_CODE_STX} |-> PeerPackets(pc, hdr)]]

(* the stage in which the peer of the scenario departs from the protocol *)
PeerFaulty(pc) ==
    IF pc \in {"hs_recv", "hs_pkt"} THEN scen = "receiverhs"
    ELSE IF pc \in {"tr_recv", "tr_pkt"} THEN scen = "receiver"
    ELSE scen = "receiverfin"

(* results of one ymodem_receive_byte of the receiver *)
ReceiverByteInputs ==
    IF broken = "rcv_recv" THEN {[ret |-> YMODEM_ERR_TMO, rest |-> s2r]}
    ELSE IF ~Paired
    THEN IF PeerFaulty(rcv.pc)
         THEN {[ret |-> b, rest |-> s2r] : b \in PeerHeaders \cup {YMODEM_ERR_TMO}}
         ELSE {[ret |-> IF rcv.pc \in {"hs_recv", "fin_recv"}
                        THEN YMODEM_CODE_SOH ELSE YMODEM_CODE_EOT,
                rest |-> s2r]}
    ELSE IF s2r # <<>> THEN {[ret |-> Head(s2r), rest |-> Tail(s2r)]}
    ELSE IF SenderIdle THEN {[ret |-> YMODEM_ERR_TMO, rest |-> s2r]}
    ELSE {}

(* results of the ymodem_receive_bytes of _ymodem_receive_packet after header
   hdr: the bytes delivered (fewer than asked for when the peer has stopped
   sending) and what is left in the transport *)
ReceiverPacketInputs(hdr) ==
    LET need == PacketSizeOf(hdr) - 1
    IN  IF PacketSizeOf(hdr) = 0 \/ broken = "rcv_recv"
        THEN {[data |-> <<>>, rest |-> s2r]}
        ELSE IF ~Paired
        THEN IF PeerFaulty(rcv.pc)
             THEN {[data |-> d, rest |-> s2r] : d \in PeerRests[rcv.pc][hdr]}
             ELSE IF rcv.pc = "hs_pkt"
             THEN {[data |-> d, rest |-> s2r] :
                      d \in {PeerInfo(sz) : sz \in PeerSizes} \cup {PeerInfoNoSize}}
             ELSE {[data |-> PeerNull(hdr), rest |-> s2r]}
        ELSE IF Len(s2r) >= need
        THEN {[data |-> SubSeq(s2r, 1, need), rest |-> SubSeq(s2r, need + 1, Len(s2r))]}
        ELSE IF SenderIdle THEN {[data |-> s2r, rest |-> <<>>]}
        ELSE {}

(* what file_write may return for n bytes *)
WriteResults(n) == IF Paired \/ n = 0 THEN {n} ELSE {n, n - 1}

(* ---- ymodem_receive_file ---- *)
(* a return before the output file was opened that sets the stage back *)
REarlyReset(R, r) == [R EXCEPT !.ret = r, !.stage = YMODEM_STAGE_NONE, !.pc = "done"]

(* a return of ymodem_receive_file before the output file was opened *)
REarly(R, r) == [R EXCEPT !.ret = r, !.pc = "done"]

(* a return of ymodem_receive_file after the output file was opened:
   file_close, file_handle = NULL, return r *)
RReturn(R, r) ==
    [R EXCEPT !.closes = @ + 1, !.file_handle = "NULL", !.ret = r, !.pc = "done"]

(* the first loop of _ymodem_do_handshake when its test is reached with i *)
RHsLoop(R, i, timeout_s) ==
    IF i < timeout_s THEN [R EXCEPT !.i = i, !.pc = "hs_sendc"]
    ELSE IF i = timeout_s THEN REarly([R EXCEPT !.i = i], YMODEM_ERR_TMO)
    ELSE [R EXCEPT !.i = i, !.pc = "hs_pkt"]

(* a transfer loop that asks again without counting the error *)
RTransErrorUncounted(R, r) == [R EXCEPT !.pc = "tr_nak"]

(* an error inside the loop of _ymodem_do_trans: count it, give up with r
   when the count exceeds YMODEM_MAX_ERRORS, else send NAK *)
RTransError(R, r) ==
    LET count == (R.error_count + 1) % 256
    IN  IF count > YMODEM_MAX_ERRORS
        THEN RReturn([R EXCEPT !.error_count = count], r)
        ELSE [R EXCEPT !.error_count = count, !.pc = "tr_nak"]

(* the whole payload written whatever the announced size *)
BytesToWriteAll(file_size, total_received, data_size) == data_size

(* number of payload bytes _ymodem_do_trans writes for a packet of data_size *)
BytesToWrite(file_size, total_received, data_size) ==
    IF file_size > 0 /\ total_received + data_size >= file_size
    THEN file_size - total_received
    ELSE data_size

(* the last loop of _ymodem_do_fin left with success but the stage untouched *)
RFinRetryKeepStage(R) ==
    IF R.retries + 1 < YMODEM_MAX_ERRORS
    THEN [R EXCEPT !.retries = @ + 1, !.pc = "fin_recv"]
    ELSE RReturn([R EXCEPT !.retries = @ + 1], YMODEM_ERR_NONE)

(* retries++ in the last loop of _ymodem_do_fin, its test, and the code after it *)
(* the last loop of _ymodem_do_fin giving up with an error *)
RFinRetryFail(R) ==
    IF R.retries + 1 < YMODEM_MAX_ERRORS
    THEN [R EXCEPT !.retries = @ + 1, !.pc = "fin_recv"]
    ELSE RReturn([R EXCEPT !.retries = @ + 1], YMODEM_ERR_CODE)

RFinRetry(R) ==
    IF R.retries + 1 < YMODEM_MAX_ERRORS
    THEN [R EXCEPT !.retries = @ + 1, !.pc = "fin_recv"]
    ELSE IF R.file_handle # "NULL"
    THEN RReturn([R EXCEPT !.retries = @ + 1, !.stage = YMODEM_STAGE_FINISHED],
                 YMODEM_ERR_NONE)
    ELSE RReturn([R EXCEPT !.retries = @ + 1], YMODEM_ERR_CODE)

(* entry of ymodem_receive_file and of _ymodem_do_handshake *)
R_Begin ==
    /\ rcv.pc = "hs_begin"
    /\ rcv' = RHsLoop([rcv EXCEPT !.stage = YMODEM_STAGE_ESTABLISHING], 0, hs_timeout)
    /\ UNCHANGED <<scen, file, hs_timeout, snd, out, verified, s2r, r2s, slog, rlog, injected, broken, prev, calc, pcall>>

(* the receiver hands byte b to comm_send, which takes cnt bytes: the
   transport and the log *)
RSends(b, cnt) ==
    /\ r2s' = IF Paired /\ cnt = 1 THEN Append(r2s, b) ELSE r2s
    /\ rlog' = IF Paired THEN Append(rlog, b) ELSE rlog

(* ymodem_send_byte('C') of the handshake loop *)
R_HsSendC ==
    /\ rcv.pc = "hs_sendc"
    /\ \E cnt \in ReceiverSendCounts(1) :
          /\ rcv' = IF cnt # 1 THEN REarly(rcv, YMODEM_ERR_CODE)
                    ELSE [rcv EXCEPT !.pc = "hs_recv"]
          /\ RSends(YMODEM_CODE_C, cnt)
    /\ UNCHANGED <<scen, file, hs_timeout, snd, out, verified, s2r, slog, injected, broken, prev, calc, pcall>>

(* the receive of the handshake loop *)
R_HsRecv ==
    /\ rcv.pc = "hs_recv"
    /\ \E in \in ReceiverByteInputs :
          /\ s2r' = in.rest
          /\ LET R == rcv
             IN  rcv' = IF in.ret >= 0
                           /\ (in.ret = YMODEM_CODE_SOH \/ in.ret = YMODEM_CODE_STX)
                        THEN [R EXCEPT !.buffer[1] = in.ret, !.pc = "hs_pkt"]
                        ELSE RHsLoop(R, rcv.i + 1, hs_timeout)
    /\ UNCHANGED <<scen, file, hs_timeout, snd, out, verified, r2s, slog, rlog, injected, broken, prev, calc, pcall>>

(* _ymodem_receive_packet of packet 0 and the SEQ test of the handshake *)
R_HsPkt ==
    /\ rcv.pc = "hs_pkt"
    /\ \E in \in ReceiverPacketInputs(rcv.buffer[1]) :
          /\ s2r' = in.rest
          /\ LET buf == Overwrite(rcv.buffer, 1, in.data)
                 ret == ymodem_receive_packet(buf, Len(in.data))
                 R == [rcv EXCEPT !.buffer = buf]
                 V == [R EXCEPT !.seq = buf[2], !.data_size = PacketSizeOf(buf[1]) - 5]
             IN  rcv' = IF ret # YMODEM_ERR_NONE THEN REarly(R, ret)
                        ELSE IF buf[2] # 0 THEN REarly(V, YMODEM_ERR_SEQ)
                        ELSE [V EXCEPT !.stage = YMODEM_STAGE_ESTABLISHED, !.pc = "hs_ack"]
    /\ UNCHANGED <<scen, file, hs_timeout, snd, out, verified, r2s, slog, rlog, injected, broken, prev, calc, pcall>>

(* ymodem_send_byte(ACK) answering packet 0 *)
R_HsAck ==
    /\ rcv.pc = "hs_ack"
    /\ \E cnt \in ReceiverSendCounts(1) :
          /\ rcv' = IF cnt # 1 THEN REarly(rcv, YMODEM_ERR_CODE)
                    ELSE [rcv EXCEPT !.pc = "hs_c"]
          /\ RSends(YMODEM_CODE_ACK, cnt)
    /\ UNCHANGED <<scen, file, hs_timeout, snd, out, verified, s2r, slog, injected, broken, prev, calc, pcall>>

(* parse, open and an entry of the transfer loop that keeps the error count *)
RParseOpenKeep(R, opened) ==
    LET p == ymodem_parse_file_info(R.buffer)
        P == [R EXCEPT !.filename = p.filename, !.file_size = p.file_size,
                       !.info_filename = p.filename, !.info_filesize = p.file_size]
    IN  IF p.ret # YMODEM_ERR_NONE THEN REarly(R, p.ret)
        ELSE IF ~opened THEN REarly([P EXCEPT !.file_handle = "NULL"], YMODEM_ERR_FILE)
        ELSE [P EXCEPT !.file_handle = "FILE", !.opens = @ + 1,
                       !.stage = YMODEM_STAGE_TRANSMITTING,
                       !.expected_seq = 1, !.total_received = 0, !.pc = "tr_recv"]

(* _ymodem_parse_file_info, file_open and the entry of _ymodem_do_trans *)
RParseOpen(R, opened) ==
    LET p == ymodem_parse_file_info(R.buffer)
        P == [R EXCEPT !.filename = p.filename, !.file_size = p.file_size,
                       !.info_filename = p.filename, !.info_filesize = p.file_size]
    IN  IF p.ret # YMODEM_ERR_NONE THEN REarly(R, p.ret)
        ELSE IF ~opened THEN REarly([P EXCEPT !.file_handle = "NULL"], YMODEM_ERR_FILE)
        ELSE [P EXCEPT !.file_handle = "FILE", !.opens = @ + 1,
                       !.stage = YMODEM_STAGE_TRANSMITTING, !.error_count = 0,
                       !.expected_seq = 1, !.total_received = 0, !.pc = "tr_recv"]

(* ymodem_send_byte('C') ending the handshake, then parse and open *)
R_HsC ==
    /\ rcv.pc = "hs_c"
    /\ \E cnt \in ReceiverSendCounts(1), opened \in (IF Paired THEN {TRUE} ELSE {TRUE, FALSE}) :
          /\ rcv' = IF cnt # 1 THEN REarly(rcv, YMODEM_ERR_CODE)
                    ELSE RParseOpen(rcv, opened)
          /\ RSends(YMODEM_CODE_C, cnt)
    /\ UNCHANGED <<scen, file, hs_timeout, snd, out, verified, s2r, slog, injected, broken, prev, calc, pcall>>

(* ---- _ymodem_do_trans ---- *)
(* the receive at the head of the transfer loop *)
R_TrRecv ==
    /\ rcv.pc = "tr_recv"
    /\ \E in \in ReceiverByteInputs :
          /\ s2r' = in.rest
          /\ LET R == rcv
                 B == [R EXCEPT !.buffer[1] = in.ret]
             IN  rcv' = IF in.ret < 0 THEN RReturn(R, YMODEM_ERR_TMO)
                        ELSE IF in.ret = YMODEM_CODE_EOT
                        THEN [B EXCEPT !.stage = YMODEM_STAGE_FINISHING,
                                       !.retries = 0, !.pc = "fin_nak1"]
                        ELSE IF in.ret # YMODEM_CODE_SOH /\ in.ret # YMODEM_CODE_STX
                        THEN RTransError(B, YMODEM_ERR_CODE)
                        ELSE [B EXCEPT !.pc = "tr_pkt"]
    /\ UNCHANGED <<scen, file, hs_timeout, snd, out, verified, r2s, slog, rlog, injected, broken, prev, calc, pcall>>

(* a receiver that takes a valid packet whatever its SEQ *)
SeqAny(seq, expected_seq) == TRUE

(* the SEQ test of _ymodem_do_trans *)
SeqExpected(seq, expected_seq) == seq = expected_seq

(* a receiver that acknowledges whatever file_write returned *)
WriteOutcomeAnyway(V, written, bytes_to_write) ==
    [V EXCEPT !.error_count = 0, !.total_received = @ + written, !.pc = "tr_ack"]

(* what follows file_write having returned written for bytes_to_write bytes *)
WriteOutcome(V, written, bytes_to_write) ==
    IF written # bytes_to_write
    THEN RReturn([V EXCEPT !.error_count = 0], YMODEM_ERR_FILE)
    ELSE [V EXCEPT !.error_count = 0, !.total_received = @ + written,
                   !.pc = "tr_ack"]

(* _ymodem_receive_packet of a data packet, the SEQ test and file_write *)
R_TrPkt ==
    /\ rcv.pc = "tr_pkt"
    /\ \E in \in ReceiverPacketInputs(rcv.buffer[1]) :
          /\ s2r' = in.rest
          /\ LET buf == Overwrite(rcv.buffer, 1, in.data)
                 ret == ymodem_receive_packet(buf, Len(in.data))
                 R == [rcv EXCEPT !.buffer = buf]
                 data_size == PacketSizeOf(buf[1]) - 5
                 V == [R EXCEPT !.seq = buf[2], !.data_size = data_size]
                 bytes_to_write ==
                     BytesToWrite(rcv.file_size, rcv.total_received, data_size)
             IN  IF ret # YMODEM_ERR_NONE
                 THEN rcv' = RTransError(R, ret) /\ UNCHANGED <<out, verified>>
                 ELSE IF ~SeqExpected(buf[2], rcv.expected_seq)
                 THEN rcv' = RTransError(V, YMODEM_ERR_SEQ)
                      /\ UNCHANGED <<out, verified>>
                 ELSE \E written \in WriteResults(bytes_to_write) :
                        /\ FileWrite(SubSeq(buf, 4, 3 + bytes_to_write))
                        /\ rcv' = WriteOutcome(V, written, bytes_to_write)
    /\ UNCHANGED <<scen, file, hs_timeout, snd, r2s, slog, rlog, injected, broken, prev, calc, pcall>>

(* ymodem_send_byte(NAK) asking for a retransmission *)
R_TrNak ==
    /\ rcv.pc = "tr_nak"
    /\ \E cnt \in ReceiverSendCounts(1) :
          /\ rcv' = IF cnt # 1 THEN RReturn(rcv, YMODEM_ERR_CODE)
                    ELSE [rcv EXCEPT !.pc = "tr_recv"]
          /\ RSends(YMODEM_CODE_NAK, cnt)
    /\ UNCHANGED <<scen, file, hs_timeout, snd, out, verified, s2r, slog, injected, broken, prev, calc, pcall>>

(* ymodem_send_byte(ACK) for a written packet, then expected_seq advances *)
R_TrAck ==
    /\ rcv.pc = "tr_ack"
    /\ \E cnt \in ReceiverSendCounts(1) :
          /\ rcv' = IF cnt # 1 THEN RReturn(rcv, YMODEM_ERR_CODE)
                    ELSE [rcv EXCEPT !.expected_seq = (@ + 1) % 256, !.pc = "tr_recv"]
          /\ RSends(YMODEM_CODE_ACK, cnt)
    /\ UNCHANGED <<scen, file, hs_timeout, snd, out, verified, s2r, slog, injected, broken, prev, calc, pcall>>

(* ---- _ymodem_do_fin ---- *)
(* ymodem_send_byte(NAK) after the first EOT, and again after a wrong answer *)
R_FinNak ==
    /\ rcv.pc \in {"fin_nak1", "fin_nak2"}
    /\ \E cnt \in ReceiverSendCounts(1) :
          /\ rcv' = IF cnt # 1 THEN RReturn(rcv, YMODEM_ERR_CODE)
                    ELSE [rcv EXCEPT !.pc = IF rcv.pc = "fin_nak1"
                                               THEN "fin_eot1" ELSE "fin_eot2"]
          /\ RSends(YMODEM_CODE_NAK, cnt)
    /\ UNCHANGED <<scen, file, hs_timeout, snd, out, verified, s2r, slog, injected, broken, prev, calc, pcall>>

(* the wait for the second EOT that asks for it again and again *)
FinEotNextAgain(pc, ret) ==
    IF ret = YMODEM_CODE_EOT THEN "fin_ack" ELSE "fin_nak2"

(* where _ymodem_do_fin goes after the first or the second wait for the
   second EOT has returned ret *)
FinEotNext(pc, ret) ==
    IF ret = YMODEM_CODE_EOT THEN "fin_ack"
    ELSE IF pc = "fin_eot1" THEN "fin_nak2"
    ELSE "done"

(* the two waits for the second EOT *)
R_FinEot ==
    /\ rcv.pc \in {"fin_eot1", "fin_eot2"}
    /\ \E in \in ReceiverByteInputs :
          /\ s2r' = in.rest
          /\ LET R == [rcv EXCEPT !.rx = in.ret]
                 next == FinEotNext(rcv.pc, in.ret)
             IN  rcv' = IF next = "done" THEN RReturn(R, YMODEM_ERR_CODE)
                        ELSE [R EXCEPT !.pc = next]
    /\ UNCHANGED <<scen, file, hs_timeout, snd, out, verified, r2s, slog, rlog, injected, broken, prev, calc, pcall>>

(* ymodem_send_byte(ACK) confirming the EOT *)
R_FinAck ==
    /\ rcv.pc = "fin_ack"
    /\ \E cnt \in ReceiverSendCounts(1) :
          /\ rcv' = IF cnt # 1 THEN RReturn(rcv, YMODEM_ERR_CODE)
                    ELSE [rcv EXCEPT !.pc = "fin_c"]
          /\ RSends(YMODEM_CODE_ACK, cnt)
    /\ UNCHANGED <<scen, file, hs_timeout, snd, out, verified, s2r, slog, injected, broken, prev, calc, pcall>>

(* ymodem_send_byte('C') asking for the null packet *)
R_FinC ==
    /\ rcv.pc = "fin_c"
    /\ \E cnt \in ReceiverSendCounts(1) :
          /\ rcv' = IF cnt # 1 THEN RReturn(rcv, YMODEM_ERR_CODE)
                    ELSE [rcv EXCEPT !.pc = "fin_recv"]
          /\ RSends(YMODEM_CODE_C, cnt)
    /\ UNCHANGED <<scen, file, hs_timeout, snd, out, verified, s2r, slog, injected, broken, prev, calc, pcall>>

(* the receive at the head of the last loop *)
R_FinRecv ==
    /\ rcv.pc = "fin_recv"
    /\ \E in \in ReceiverByteInputs :
          /\ s2r' = in.rest
          /\ LET R == rcv
                 B == [R EXCEPT !.buffer[1] = in.ret]
             IN  rcv' = IF in.ret < 0 THEN RFinRetry(R)
                        ELSE IF in.ret = YMODEM_CODE_SOH \/ in.ret = YMODEM_CODE_STX
                        THEN [B EXCEPT !.pc = "fin_pkt"]
                        ELSE IF in.ret = YMODEM_CODE_EOT
                        THEN [B EXCEPT !.pc = "fin_eot_ack"]
                        ELSE RFinRetry(B)
    /\ UNCHANGED <<scen, file, hs_timeout, snd, out, verified, r2s, slog, rlog, injected, broken, prev, calc, pcall>>

(* _ymodem_receive_packet of the final packet, its SEQ and filename tests *)
(* the bytes data after the header make a valid packet with SEQ 0 and a file
   name: the loop of _ymodem_do_fin goes round without counting it *)
FinPktUncounted(data) ==
    LET buf == Overwrite(rcv.buffer, 1, data)
    IN  /\ ymodem_receive_packet(buf, Len(data)) = YMODEM_ERR_NONE
        /\ buf[2] = 0
        /\ buf[4] # 0

R_FinPkt ==
    /\ rcv.pc = "fin_pkt"
    /\ \E in \in ReceiverPacketInputs(rcv.buffer[1]) :
          /\ FinPktUncounted(in.data) => rcv.waits < MaxExtraInfo
          /\ s2r' = in.rest
          /\ LET buf == Overwrite(rcv.buffer, 1, in.data)
                 ret == ymodem_receive_packet(buf, Len(in.data))
                 R == [rcv EXCEPT !.buffer = buf]
                 V == [R EXCEPT !.seq = buf[2], !.data_size = PacketSizeOf(buf[1]) - 5]
             IN  rcv' = IF ret # YMODEM_ERR_NONE THEN RFinRetry(R)
                        ELSE IF buf[2] # 0 THEN RFinRetry(V)
                        ELSE IF buf[4] = 0
                        THEN [V EXCEPT !.stage = YMODEM_STAGE_FINISHED,
                                       !.pc = "fin_final_ack"]
                        ELSE [V EXCEPT !.waits = @ + 1, !.pc = "fin_recv"]
    /\ UNCHANGED <<scen, file, hs_timeout, snd, out, verified, r2s, slog, rlog, injected, broken, prev, calc, pcall>>

(* ymodem_send_byte(ACK) for the null packet *)
R_FinFinalAck ==
    /\ rcv.pc = "fin_final_ack"
    /\ \E cnt \in ReceiverSendCounts(1) :
          /\ rcv' = IF cnt # 1 THEN RReturn(rcv, YMODEM_ERR_CODE)
                    ELSE RReturn(rcv, YMODEM_ERR_NONE)
          /\ RSends(YMODEM_CODE_ACK, cnt)
    /\ UNCHANGED <<scen, file, hs_timeout, snd, out, verified, s2r, slog, injected, broken, prev, calc, pcall>>

(* ymodem_send_byte(ACK) for one more EOT, then retries++ *)
R_FinEotAck ==
    /\ rcv.pc = "fin_eot_ack"
    /\ \E cnt \in ReceiverSendCounts(1) :
          /\ rcv' = IF cnt # 1 THEN RReturn(rcv, YMODEM_ERR_CODE)
                    ELSE RFinRetry(rcv)
          /\ RSends(YMODEM_CODE_ACK, cnt)
    /\ UNCHANGED <<scen, file, hs_timeout, snd, out, verified, s2r, slog, injected, broken, prev, calc, pcall>>

(* ymodem_receive_init on the arguments a *)
R_Init ==
    /\ rcv.pc = "init"
    /\ \E a \in ReceiveInitArgs :
          rcv' = IF ymodem_receive_init(a) = YMODEM_ERR_NONE
                 THEN [InitFields(rcv) EXCEPT !.args = a, !.ret = YMODEM_ERR_NONE,
                                              !.pc = "ready"]
                 ELSE [rcv EXCEPT !.args = a, !.ret = ymodem_receive_init(a),
                                  !.pc = "refused"]
    /\ UNCHANGED <<scen, file, hs_timeout, snd, out, verified, s2r, r2s, slog, rlog, injected, broken, prev, calc, pcall>>

(* ymodem_receive_cleanup on a context *)
ymodem_receive_cleanup(R) ==
    [R EXCEPT !.closes = IF R.file_handle # "NULL" THEN @ + 1 ELSE @,
              !.file_handle = "NULL",
              !.stage = YMODEM_STAGE_NONE]

(* ymodem_receive_cleanup *)
R_Cleanup ==
    /\ rcv.pc \in CleanupPcs
    /\ rcv' = [ymodem_receive_cleanup(rcv) EXCEPT !.pc = AfterCleanup(rcv.pc)]
    /\ UNCHANGED <<scen, file, hs_timeout, snd, out, verified, s2r, r2s, slog, rlog, injected, broken, prev, calc, pcall>>

ReceiverNext ==
    \/ R_Init \/ R_Begin \/ R_HsSendC \/ R_HsRecv \/ R_HsPkt \/ R_HsAck \/ R_HsC
    \/ R_TrRecv \/ R_TrPkt \/ R_TrNak \/ R_TrAck
    \/ R_FinNak \/ R_FinEot \/ R_FinAck \/ R_FinC \/ R_FinRecv \/ R_FinPkt
    \/ R_FinFinalAck \/ R_FinEotAck \/ R_Cleanup

(* ---- the transport of scenario "can" ---- *)
(* the ACK answering a data packet is replaced by CAN, once per run *)
T_InjectCan ==
    /\ scen = "can"
    /\ ~injected
    /\ snd.pc = "data_reply"
    /\ r2s # <<>>
    /\ Head(r2s) = YMODEM_CODE_ACK
    /\ r2s' = <<YMODEM_CODE_CAN>> \o Tail(r2s)
    /\ injected' = TRUE
    /\ UNCHANGED <<scen, file, hs_timeout, snd, rcv, out, verified, s2r, slog, rlog, broken, prev, calc, pcall>>

(* ---- the transport of scenario "abort" ---- *)
(* the callbacks that can begin to fail and the side they belong to *)
BreakKinds == {"snd_recv", "snd_send", "rcv_recv", "rcv_send"}

(* the side is about to call the callback of this kind *)
AboutToCall(kind) ==
    CASE kind = "snd_recv" -> snd.pc \in SenderRecvPcs
      [] kind = "snd_send" -> snd.pc \in SenderSendPcs
      [] kind = "rcv_recv" -> rcv.pc \in ReceiverBytePcs \cup ReceiverPacketPcs
      [] OTHER -> rcv.pc \in ReceiverSendPcs

(* from the next call on, comm_receive of one side returns 0 bytes, or
   comm_send of one side takes no byte *)
T_Break ==
    /\ scen = "abort"
    /\ broken = "no"
    /\ \E kind \in BreakKinds : AboutToCall(kind) /\ broken' = kind
    /\ UNCHANGED <<scen, file, hs_timeout, snd, rcv, out, verified, s2r, r2s, slog, rlog,
                   injected, prev, calc, pcall>>

(* ---- the caller of scenario "reuse" ---- *)
(* both calls have returned YMODEM_ERR_NONE: the caller keeps what they did
   and calls ymodem_send_file and ymodem_receive_file again, with the same
   arguments, on the same contexts; the output file is written anew *)
Call_Again ==
    /\ scen = "reuse"
    /\ ~prev.done
    /\ snd.pc = "done" /\ snd.ret = YMODEM_ERR_NONE
    /\ rcv.pc = "done" /\ rcv.ret = YMODEM_ERR_NONE
    /\ prev' = [done |-> TRUE, slog |-> slog, rlog |-> rlog, out |-> out,
                sret |-> snd.ret, rret |-> rcv.ret]
    /\ snd' = [snd EXCEPT !.pc = "open"]
    /\ rcv' = [rcv EXCEPT !.pc = "hs_begin"]
    /\ out' = <<>>
    /\ verified' = 0
    /\ UNCHANGED <<scen, file, hs_timeout, s2r, r2s, slog, rlog, injected, broken, calc,
                   pcall>>

(* ymodem_calc_crc16 on the last input extended by one byte, whatever follows
   the input in the buffer *)
Crc_Call ==
    /\ scen = "crc16"
    /\ Len(calc.data) < MaxCrcLen
    /\ \E b \in CrcBytes, rest \in {<<>>, <<255>>} :
          calc' = CrcCall(Append(calc.data, b), rest)
    /\ UNCHANGED <<scen, file, hs_timeout, snd, rcv, out, verified, s2r, r2s, slog, rlog,
                   injected, broken, prev, pcall>>

(* what the transport delivers after the header hdr in scenario "packet" *)
PacketRestsOf(hdr) ==
    LET whole == PeerBlock(hdr, 1)
        n == Len(whole)
    IN  {whole, PeerBadSeq(whole), PeerBadCrc(whole), FlipBit(whole, n - 1, 7),
         FlipBit(whole, 3, 0), PeerBadSeq(PeerBadCrc(whole)),
         SubSeq(whole, 1, n - 1), SubSeq(PeerBadSeq(PeerBadCrc(whole)), 1, n - 1),
         SubSeq(PeerBadSeq(whole), 1, 2), <<>>}

PacketRests == [hdr \in {YMODEM_CODE_SOH, YMODEM_CODE_STX} |-> PacketRestsOf(hdr)]

(* _ymodem_receive_packet after a header byte SOH or STX *)
Packet_Call ==
    /\ scen = "packet"
    /\ \E hdr \in {YMODEM_CODE_SOH, YMODEM_CODE_STX} : \E rest \in PacketRests[hdr] :
          pcall' = PacketCall(hdr, rest)
    /\ UNCHANGED <<scen, file, hs_timeout, snd, rcv, out, verified, s2r, r2s, slog, rlog,
                   injected, broken, prev, calc>>

Next == SenderNext \/ ReceiverNext \/ T_InjectCan \/ T_Break \/ Call_Again \/ Crc_Call
          \/ Packet_Call

Spec == Init /\ [][Next]_vars

(* the sender has a step to take: it is at a statement that needs nothing
   from the transport, or its receive has something to return (a byte, or
   the timeout of a peer that will send nothing) *)
SenderCanStep ==
    \/ snd.pc \in {"init", "open"} \cup SenderSendPcs \cup CleanupPcs
    \/ snd.pc \in SenderRecvPcs \ {"fin_c"} /\ SenderByteInputs # {}
    \/ snd.pc = "fin_c"
          /\ \E in \in SenderByteInputs :
                in.ret = YMODEM_CODE_ACK => snd.waits < MaxWaits

(* the same for the receiver *)
ReceiverCanStep ==
    \/ rcv.pc \in {"init", "hs_begin"} \cup ReceiverSendPcs \cup CleanupPcs
    \/ rcv.pc \in ReceiverBytePcs /\ ReceiverByteInputs # {}
    \/ rcv.pc \in ReceiverPacketPcs \ {"fin_pkt"}
          /\ ReceiverPacketInputs(rcv.buffer[1]) # {}
    \/ rcv.pc = "fin_pkt"
          /\ \E in \in ReceiverPacketInputs(rcv.buffer[1]) :
                FinPktUncounted(in.data) => rcv.waits < MaxExtraInfo

(* every callback returns: a call that has a step to take does not stay for
   ever where it is. This is weak fairness of SenderNext and of ReceiverNext,
   WF_vars(SenderNext) /\ WF_vars(ReceiverNext), written with the state
   predicates above for ENABLED <<SenderNext>>_vars and
   ENABLED <<ReceiverNext>>_vars. Scenario "flip" is followed with at most two
   handshake attempts: one for the inverted packet 0 and one for its
   retransmission *)
LiveInit == Init /\ (scen = "flip" => hs_timeout <= 2)

LiveSpec ==
    /\ LiveInit /\ [][Next]_vars
    /\ []<>(~SenderCanStep) \/ []<><<SenderNext>>_vars
    /\ []<>(~ReceiverCanStep) \/ []<><<ReceiverNext>>_vars

(* ---- properties ---- *)
SenderReturned == snd.pc \in {"done", "cleaned", "cleaned2"}

ReceiverReturned == rcv.pc \in {"done", "cleaned", "cleaned2"}

(* the sends of data packets among the sends of the sender *)
IsDataEntry(e) == e.fill > 0

DataSends == SelectSeq(slog, IsDataEntry)

(* both calls have returned YMODEM_ERR_NONE and the output equals the input *)
TransferComplete ==
    /\ snd.ret = YMODEM_ERR_NONE
    /\ rcv.ret = YMODEM_ERR_NONE
    /\ OutputIsInput

(* C1: on a loss-free in-order transport, for every file length of the set
   (0, 1, 128, 129, 1023, 1024, 1025 and multi-packet lengths), a call that
   has returned has returned YMODEM_ERR_NONE, and once the receiver has
   returned the bytes passed to file_write are the file's bytes, in order,
   with total length exactly L. *)
C1_RoundTrip ==
    scen = "clean" =>
        /\ SenderReturned => snd.ret = YMODEM_ERR_NONE
        /\ ReceiverReturned =>
              /\ rcv.ret = YMODEM_ERR_NONE
              /\ out = FileContent(file)
              /\ Len(out) = file.len

C1_Witness ==
    /\ scen = "clean"
    /\ file.len = 1025
    /\ snd.pc = "done"
    /\ rcv.pc = "done"
    /\ TransferComplete

(* C2: when the ACK of the first attempt of each data packet is replaced by a
   timeout and everything else is delivered unchanged, both calls return
   YMODEM_ERR_NONE and the output equals the input. *)
C2_LostAck ==
    scen = "ackloss" =>
        /\ SenderReturned => snd.ret = YMODEM_ERR_NONE
        /\ ReceiverReturned =>
              /\ rcv.ret = YMODEM_ERR_NONE
              /\ out = FileContent(file)

(* C3: when one bit of the first transmission of each packet is inverted, at
   any position, and retransmissions pass unchanged, both calls return
   YMODEM_ERR_NONE and the output equals the input. *)
C3_FlippedBit ==
    scen = "flip" =>
        /\ SenderReturned => snd.ret = YMODEM_ERR_NONE
        /\ ReceiverReturned =>
              /\ rcv.ret = YMODEM_ERR_NONE
              /\ out = FileContent(file)

(* C4: once ymodem_send_file or ymodem_receive_file has returned, on any
   path, file_handle is NULL and file_close was called exactly once for
   each file_open that returned a handle; this still holds after cleanup,
   so cleanup closes nothing again. *)
C4_FileClosed ==
    /\ snd.closes <= snd.opens
    /\ rcv.closes <= rcv.opens
    /\ SenderReturned => snd.file_handle = "NULL" /\ snd.closes = snd.opens
    /\ ReceiverReturned => rcv.file_handle = "NULL" /\ rcv.closes = rcv.opens

C4_Witness ==
    /\ snd.pc = "cleaned"
    /\ snd.ret = YMODEM_ERR_CAN
    /\ snd.opens = 1
    /\ snd.closes = 1
    /\ snd.file_handle = "NULL"

(* C5: at the return of ymodem_send_file or ymodem_receive_file with
   YMODEM_ERR_NONE, ctx->stage is YMODEM_STAGE_FINISHED, also when the final
   'C', ACK or null-filename packet never arrived. *)
C5_NoneIsFinished ==
    /\ (snd.pc = "done" /\ snd.ret = YMODEM_ERR_NONE)
          => snd.stage = YMODEM_STAGE_FINISHED
    /\ (rcv.pc = "done" /\ rcv.ret = YMODEM_ERR_NONE)
          => rcv.stage = YMODEM_STAGE_FINISHED

C5_Witness ==
    /\ scen = "receiverfin"
    /\ rcv.pc = "done"
    /\ rcv.ret = YMODEM_ERR_NONE
    /\ rcv.retries = YMODEM_MAX_ERRORS
    /\ rcv.stage = YMODEM_STAGE_FINISHED

(* C6: when packet 0 announced a size file_size > 0, the number of bytes
   passed to file_write so far never exceeds file_size, whatever data packets
   the peer sends and however many. *)
C6_NeverBeyondSize ==
    rcv.file_size > 0 =>
        /\ OutputLen <= rcv.file_size
        /\ rcv.total_received <= rcv.file_size

(* the peer has sent, and the receiver accepted, one packet more than the
   announced 3 bytes need *)
C6_Witness ==
    /\ scen = "receiver"
    /\ rcv.file_size = 3
    /\ rcv.expected_seq = 3
    /\ rcv.pc = "tr_recv"
    /\ Len(out) = 3

(* the data packets a file of length L is cut into *)
FullBlocks == file.len \div YMODEM_STX_DATA_SIZE

Remainder == file.len % YMODEM_STX_DATA_SIZE

(* C7: on a clean transport the sender has sent, when it returns, exactly
   floor(L/1024) STX packets of 1024 file bytes, then, when r = L mod 1024 > 0,
   exactly one more data packet, SOH with 128 payload bytes when r <= 128 and
   STX with 1024 otherwise, whose payload is the last r file bytes followed
   by 0x1A only; for L = 0 no data packet. *)
C7_Packetisation ==
    (scen = "clean" /\ SenderReturned) =>
        /\ Len(DataSends) = FullBlocks + (IF Remainder > 0 THEN 1 ELSE 0)
        /\ \A k \in 1..Len(DataSends) :
              /\ DataSends[k].ok
              /\ DataSends[k].retry = 0
              /\ DataSends[k].off = (k - 1) * YMODEM_STX_DATA_SIZE
              /\ DataSends[k].seq = k % 256
        /\ \A k \in 1..FullBlocks :
              /\ DataSends[k].code = YMODEM_CODE_STX
              /\ DataSends[k].n = YMODEM_STX_DATA_SIZE
              /\ DataSends[k].fill = YMODEM_STX_DATA_SIZE
        /\ Remainder > 0 =>
              LET last == DataSends[Len(DataSends)]
              IN  /\ last.fill = Remainder
                  /\ last.code = IF Remainder <= YMODEM_SOH_DATA_SIZE
                                 THEN YMODEM_CODE_SOH ELSE YMODEM_CODE_STX
                  /\ last.n = IF Remainder <= YMODEM_SOH_DATA_SIZE
                              THEN YMODEM_SOH_DATA_SIZE ELSE YMODEM_STX_DATA_SIZE

C7_Witness ==
    /\ scen = "clean"
    /\ file.len = 1025
    /\ snd.pc = "done"
    /\ Len(DataSends) = 2
    /\ DataSends[1].code = YMODEM_CODE_STX
    /\ DataSends[2].code = YMODEM_CODE_SOH
    /\ DataSends[2].fill = 1
    /\ DataSends[2].ok

(* the receives of the sender after the first 'C': after packet 0, after a data
   packet, and in the Finishing stage *)
CanStages == {"hs_ack", "data_reply", "eot1_reply", "eot2_reply", "fin_c", "fin_ack"}

(* C8: whenever a receive of the sender after packet 0, after a data packet
   or in the Finishing stage returns CAN, ymodem_send_file returns
   YMODEM_ERR_CAN at once. *)
C8_CanEverywhere ==
    [][(snd.pc \in CanStages /\ snd' # snd /\ snd'.rx = YMODEM_CODE_CAN)
          => (snd'.pc = "done" /\ snd'.ret = YMODEM_ERR_CAN)]_vars

(* C9: when the receive after a data packet returns CAN, ymodem_send_file
   returns YMODEM_ERR_CAN in that step with the file closed and nothing
   sent, and a sender that has returned sends nothing more. *)
C9_CanAfterData ==
    [][/\ (snd.pc = "data_reply" /\ snd' # snd /\ snd'.rx = YMODEM_CODE_CAN)
            => /\ snd'.pc = "done"
               /\ snd'.ret = YMODEM_ERR_CAN
               /\ snd'.file_handle = "NULL"
               /\ snd'.closes = snd.closes + 1
               /\ snd'.closes = snd'.opens
               /\ slog' = slog
               /\ s2r' = s2r
       /\ SenderReturned => (slog' = slog /\ Len(s2r') <= Len(s2r))]_vars

(* the ACK of a data packet was replaced by CAN: the sender has returned and
   the last thing it sent is that data packet, sent once *)
C9_Witness ==
    /\ scen = "can"
    /\ injected
    /\ snd.pc = "done"
    /\ snd.ret = YMODEM_ERR_CAN
    /\ snd.file_handle = "NULL"
    /\ slog[Len(slog)].fill > 0
    /\ slog[Len(slog)].retry = 0

(* what the receiver sends when every data packet needs two transmissions *)
RECURSIVE NakAck(_)
NakAck(n) ==
    IF n = 0 THEN <<>> ELSE <<YMODEM_CODE_NAK, YMODEM_CODE_ACK>> \o NakAck(n - 1)

(* C10: when each data packet arrives with a wrong CRC on its first
   transmission only, the receiver answers the first transmission with NAK
   and writes nothing, and writes the retransmission and answers it with
   ACK; at the end each data packet was sent exactly twice with the same SEQ
   and payload, the receiver answered each pair with NAK then ACK, both calls
   returned YMODEM_ERR_NONE and the output equals the input. *)
C10_CrcRetry ==
    /\ [][(scen = "crc" /\ rcv.pc = "tr_pkt" /\ rcv' # rcv) =>
             LET sent == DataSends[Len(DataSends)]
             IN  IF sent.retry = 0
                 THEN /\ rcv'.pc = "tr_nak"
                      /\ out' = out
                      /\ rcv'.total_received = rcv.total_received
                 ELSE /\ rcv'.pc = "tr_ack"
                      /\ rcv'.seq = sent.seq
                      /\ Len(out) = sent.off
                      /\ Len(out') = sent.off + sent.fill]_vars
    /\ []((scen = "crc" /\ SenderReturned /\ ReceiverReturned) =>
            /\ TransferComplete
            /\ Len(DataSends) = 2 * (FullBlocks + (IF Remainder > 0 THEN 1 ELSE 0))
            /\ \A k \in 1..(Len(DataSends) \div 2) :
                  LET first == DataSends[2 * k - 1]
                      again == DataSends[2 * k]
                  IN  /\ first.retry = 0
                      /\ again = [first EXCEPT !.retry = 1]
                      /\ first.ok
                      /\ first.seq = k
            /\ rlog = <<YMODEM_CODE_C, YMODEM_CODE_ACK, YMODEM_CODE_C>>
                      \o NakAck(Len(DataSends) \div 2)
                      \o <<YMODEM_CODE_NAK, YMODEM_CODE_ACK, YMODEM_CODE_C,
                           YMODEM_CODE_ACK>>)

C10_Witness ==
    /\ scen = "crc"
    /\ file.len = 129
    /\ snd.pc = "done"
    /\ rcv.pc = "done"
    /\ TransferComplete
    /\ Len(DataSends) = 2
    /\ DataSends[2].retry = 1

(* the basename of the path given to ymodem_send_file does not fit in packet 0
   together with the size of the file *)
BasenameTooLong ==
    LET basename == ymodem_get_path_basename(file.path)
    IN  \/ Len(basename) >= YMODEM_SOH_DATA_SIZE
        \/ Len(basename) + 1 + Len(DecimalDigits(file.len)) >= YMODEM_SOH_DATA_SIZE

(* C11: when the basename has 128 bytes or more, or basename length + 1 +
   number of decimal digits of the file size is >= 128, the sender, once the
   receiver's 'C' has reached it, returns YMODEM_ERR_DSZ, and at no time of
   the call has it handed a byte to comm_send or put one on the wire. *)
C11_NameTooLong ==
    (scen = "longname" /\ BasenameTooLong) =>
        /\ slog = <<>>
        /\ s2r = <<>>
        /\ SenderReturned => snd.ret = YMODEM_ERR_DSZ

C11_Witness ==
    /\ scen = "longname"
    /\ Len(ymodem_get_path_basename(file.path)) = 300
    /\ snd.rx = YMODEM_CODE_C
    /\ snd.pc = "done"
    /\ snd.ret = YMODEM_ERR_DSZ
    /\ slog = <<>>

(* C18: on an unmodified transport, once the receiver has parsed a packet 0
   with a non-empty name, the filename and the size it stores in file_info
   and in its context are the sender's basename and the size file_size
   returned to the sender; for a file of length 0 the size stored is 0. *)
C18_FileInfoRoundTrip ==
    (scen \in {"clean", "longname"} /\ rcv.opens > 0) =>
        /\ rcv.info_filename = ymodem_get_path_basename(file.path)
        /\ rcv.info_filename = snd.filename
        /\ rcv.filename = rcv.info_filename
        /\ rcv.info_filesize = snd.file_size
        /\ rcv.file_size = rcv.info_filesize
        /\ file.len = 0 => rcv.info_filesize = 0

(* the longest basename that fits beside a 4-digit size has arrived *)
C18_Witness ==
    /\ scen = "longname"
    /\ Len(ymodem_get_path_basename(file.path)) = 122
    /\ file.len = 1025
    /\ rcv.pc = "done"
    /\ rcv.ret = YMODEM_ERR_NONE
    /\ rcv.info_filename = ymodem_get_path_basename(file.path)
    /\ rcv.info_filesize = 1025

(* the step is one of a running call, and not the entry of a call on a
   context that an earlier call has left at its last stage *)
SenderCallStep == ~Returned(snd.pc) /\ ~(prev.done /\ snd.pc = "open")

ReceiverCallStep == ~Returned(rcv.pc) /\ ~(prev.done /\ rcv.pc = "hs_begin")

(* C12: no step of a call of ymodem_send_file or ymodem_receive_file lowers
   ctx->stage in the order None < Establishing < Established < Transmitting <
   Finishing < Finished; in particular a step that returns an error leaves
   the stage at least where it was, and between the return and cleanup the
   stage does not change. *)
C12_StageMonotone ==
    [][/\ SenderCallStep => snd'.stage >= snd.stage
       /\ ReceiverCallStep => rcv'.stage >= rcv.stage
       /\ (snd.pc = "done" /\ snd'.pc = "done") => snd'.stage = snd.stage
       /\ (rcv.pc = "done" /\ rcv'.pc = "done") => rcv'.stage = rcv.stage]_vars

(* the receiver has given up in the transfer loop and the stage still says
   Transmitting *)
C12_Witness ==
    /\ rcv.pc = "done"
    /\ rcv.ret = YMODEM_ERR_CRC
    /\ rcv.error_count > YMODEM_MAX_ERRORS
    /\ rcv.stage = YMODEM_STAGE_TRANSMITTING

(* C13: once comm_receive of a side returns 0 bytes on every call, or
   comm_send of a side refuses every call, from some call of the transfer
   on, the function of that side returns an error code other than
   YMODEM_ERR_NONE, with the file closed. *)
C13_TransportAbort ==
    /\ (broken \in {"snd_recv", "snd_send"} /\ SenderReturned) =>
          /\ snd.ret # YMODEM_ERR_NONE
          /\ snd.file_handle = "NULL"
          /\ snd.closes = snd.opens
    /\ (broken \in {"rcv_recv", "rcv_send"} /\ ReceiverReturned) =>
          /\ rcv.ret # YMODEM_ERR_NONE
          /\ rcv.file_handle = "NULL"
          /\ rcv.closes = rcv.opens

(* C20: a packet send counts as done only when comm_send took the whole
   packet: the sender waits for the answer to packet 0, to a data packet or
   to the terminator only after comm_send returned the full packet length. *)
C20_PartialSendFails ==
    /\ snd.pc \in {"hs_ack", "fin_ack"} => snd.sent = YMODEM_SOH_PACKET_SIZE
    /\ snd.pc = "data_reply" => snd.sent = 3 + snd.read_size + 2

(* the error codes the defects of the arguments a of an init call ask for *)
InitDefects(a, required, sizes) ==
    (IF a.null # "none" \/ a.missing \in required THEN {YMODEM_ERR_CODE} ELSE {})
    \cup (IF \E z \in sizes : z < YMODEM_MAX_PACKET_SIZE THEN {YMODEM_ERR_DSZ} ELSE {})

(* an init call has returned r for the arguments a and left the context C:
   an error code that one of the defects asks for, or, without a defect,
   YMODEM_ERR_NONE with the context reset *)
InitResult(C, a, r, defects) ==
    IF defects = {}
    THEN /\ r = YMODEM_ERR_NONE
         /\ C.stage = YMODEM_STAGE_NONE
         /\ C.file_handle = "NULL"
         /\ C.packet_seq = 0
         /\ C.error_count = 0
    ELSE r \in defects

(* C14: ymodem_send_init and ymodem_receive_init return YMODEM_ERR_CODE for
   a NULL ctx, callbacks or buffer pointer or a missing required callback
   (the receiver requires neither file_read nor file_size), YMODEM_ERR_DSZ
   for a buffer below 1029 bytes, and otherwise YMODEM_ERR_NONE with stage =
   None, file handle = NULL, packet sequence = 0 and error count = 0. *)
C14_InitValidation ==
    /\ snd.pc \in {"ready", "refused"} =>
          InitResult(snd, snd.args, snd.ret,
                     InitDefects(snd.args, SenderRequired,
                                 {snd.args.buffer_size, snd.args.send_buffer_size}))
    /\ rcv.pc \in {"ready", "refused"} =>
          InitResult(rcv, rcv.args, rcv.ret,
                     InitDefects(rcv.args, ReceiverRequired, {rcv.args.buffer_size}))
    /\ YMODEM_MAX_PACKET_SIZE = 1029

(* the receiver was initialised without file_size over a context that held
   other values *)
C14_Witness ==
    /\ scen = "recvinit"
    /\ rcv.pc = "ready"
    /\ rcv.args.missing = "file_size"
    /\ rcv.ret = YMODEM_ERR_NONE
    /\ rcv.stage = YMODEM_STAGE_NONE
    /\ rcv.file_handle = "NULL"

(* C15: a cleanup sets stage to None and, when a file handle is open, calls
   file_close once and sets the handle to NULL; a second cleanup right after
   it changes nothing in the context and calls file_close no more. *)
C15_CleanupIdempotent ==
    [][/\ (snd.pc \in {"done", "held"} /\ snd'.pc = "cleaned") =>
             /\ snd'.stage = YMODEM_STAGE_NONE
             /\ snd'.file_handle = "NULL"
             /\ snd'.closes = snd.closes + (IF snd.file_handle = "NULL" THEN 0 ELSE 1)
       /\ (snd.pc = "cleaned" /\ snd'.pc = "cleaned2") =>
             snd' = [snd EXCEPT !.pc = "cleaned2"]
       /\ (rcv.pc \in {"done", "held"} /\ rcv'.pc = "cleaned") =>
             /\ rcv'.stage = YMODEM_STAGE_NONE
             /\ rcv'.file_handle = "NULL"
             /\ rcv'.closes = rcv.closes + (IF rcv.file_handle = "NULL" THEN 0 ELSE 1)
       /\ (rcv.pc = "cleaned" /\ rcv'.pc = "cleaned2") =>
             rcv' = [rcv EXCEPT !.pc = "cleaned2"]]_vars

(* two cleanups of a context that held an open file in the middle of a
   transfer: one file_close *)
C15_Witness ==
    /\ scen = "cleanup"
    /\ snd.pc = "cleaned2"
    /\ snd.opens = 1
    /\ snd.closes = 1
    /\ snd.file_handle = "NULL"
    /\ snd.stage = YMODEM_STAGE_NONE

(* s is an initial part of t *)
IsPrefix(s, t) == Len(s) <= Len(t) /\ s = SubSeq(t, 1, Len(s))

(* the part of a log that the calls now running have added to the log of
   the calls before them *)
CallLog(log, before) == SubSeq(log, Len(before) + 1, Len(log))

(* C16: after a pair of calls that returned YMODEM_ERR_NONE, the same calls
   made again on the same contexts, over a transport that behaves as
   before, do what the calls on the fresh contexts did: at every moment the
   sends of either side and the bytes written are an initial part of those
   of the first pair, at the return they are equal and so are the return
   values; the transfer loop is entered with data SEQ 1 and error count 0
   on both sides, whatever the first pair of calls left there. *)
C16_ReuseAfterSuccess ==
    /\ [](prev.done =>
            /\ IsPrefix(CallLog(slog, prev.slog), prev.slog)
            /\ IsPrefix(CallLog(rlog, prev.rlog), prev.rlog)
            /\ IsPrefix(out, prev.out)
            /\ snd.pc = "done" =>
                  (snd.ret = prev.sret /\ CallLog(slog, prev.slog) = prev.slog)
            /\ rcv.pc = "done" =>
                  /\ rcv.ret = prev.rret
                  /\ CallLog(rlog, prev.rlog) = prev.rlog
                  /\ out = prev.out)
    /\ [][/\ (prev.done /\ snd.pc = "hs_ack" /\ snd'.pc = "data_send") =>
                 (snd'.packet_seq = 1 /\ snd'.error_count = 0)
          /\ (prev.done /\ rcv.pc = "hs_c" /\ rcv'.pc = "tr_recv") =>
                 (rcv'.expected_seq = 1 /\ rcv'.error_count = 0
                    /\ rcv'.total_received = 0)]_vars

(* the second pair of calls has returned; the first had left the receiver's
   error count at 1 *)
C16_Witness ==
    /\ scen = "reuse"
    /\ file.len = 1025
    /\ prev.done
    /\ snd.pc = "done" /\ snd.ret = YMODEM_ERR_NONE
    /\ rcv.pc = "done" /\ rcv.ret = YMODEM_ERR_NONE
    /\ rcv.error_count = 1
    /\ snd.opens = 2
    /\ rcv.opens = 2
    /\ Len(prev.slog) > 0
    /\ slog = prev.slog \o prev.slog
    /\ out = FileContent(file)

(* number of data packets the receiver has written *)
PacketsWritten == (OutputLen + YMODEM_STX_DATA_SIZE - 1) \div YMODEM_STX_DATA_SIZE

(* C17: in a transfer of more than 255 data packets on a clean transport the
   k-th data packet carries SEQ k mod 256 (1, 2, ..., 255, 0, 1, ...) and is
   sent once, the sender's packet_seq and the receiver's expected_seq follow
   that sequence, both calls return YMODEM_ERR_NONE and the output equals
   the input. *)
C17_SeqWraps ==
    scen = "wrap" =>
        /\ \A k \in 1..Len(DataSends) :
              DataSends[k].seq = k % 256 /\ DataSends[k].retry = 0
        /\ snd.pc = "data_send" => snd.packet_seq = (Len(DataSends) + 1) % 256
        /\ snd.pc = "data_reply" => snd.packet_seq = Len(DataSends) % 256
        /\ rcv.pc \in {"tr_recv", "tr_pkt"} =>
              rcv.expected_seq = (PacketsWritten + 1) % 256
        /\ rcv.pc = "tr_ack" => rcv.expected_seq = PacketsWritten % 256
        /\ SenderReturned =>
              (snd.ret = YMODEM_ERR_NONE /\ Len(DataSends) = FullBlocks + 1)
        /\ ReceiverReturned =>
              (rcv.ret = YMODEM_ERR_NONE /\ OutputIsInput)

(* the transfer is complete and SEQ has passed 255, 0 and 1 *)
C17_Witness ==
    /\ scen = "wrap"
    /\ snd.pc = "done"
    /\ rcv.pc = "done"
    /\ TransferComplete
    /\ Len(DataSends) > 256
    /\ DataSends[255].seq = 255
    /\ DataSends[256].seq = 0
    /\ DataSends[257].seq = 1

(* the transport delivers every byte of the sender as it was sent *)
CleanWire == scen \in {"clean", "wrap", "longname", "reuse", "ackloss", "can"}

(* the packet the sender has sent last and waits for the answer to *)
LastPacket ==
    IF snd.pc = "data_reply"
    THEN BuildPacket(snd.packet_type, snd.packet_seq, snd.buffer, snd.read_size)
    ELSE BuildPacket(YMODEM_CODE_SOH, 0, snd.buffer, YMODEM_SOH_DATA_SIZE)

(* C19: every packet the sender puts on the wire (packet 0, data packets, the
   terminator) has length 3+N+2 with N = 128 for header SOH and N = 1024 for
   header STX, its third byte is its second byte XOR 0xFF, and its last two
   bytes are the big-endian CRC-16 of its N payload bytes; delivered
   unmodified it passes the receiver's packet validation, and the receiver
   holds the same SEQ and the same payload. *)
C19_PacketFormat ==
    /\ [][(CleanWire /\ snd.pc \in {"hs_send0", "data_send", "null_send"}
              /\ s2r' # s2r) =>
             LET w == SubSeq(s2r', Len(s2r) + 1, Len(s2r'))
                 N == IF w[1] = YMODEM_CODE_SOH THEN YMODEM_SOH_DATA_SIZE
                      ELSE YMODEM_STX_DATA_SIZE
             IN  /\ w[1] \in {YMODEM_CODE_SOH, YMODEM_CODE_STX}
                 /\ Len(w) = 3 + N + 2
                 /\ w[3] = Xor8(w[2], 255)
                 /\ w[3 + N + 1] * 256 + w[3 + N + 2] = ymodem_calc_crc16(w, 3, N)
                 /\ ymodem_receive_packet(w, Len(w) - 1) = YMODEM_ERR_NONE]_vars
    /\ [][(scen \in {"clean", "wrap", "longname", "reuse"}
              /\ rcv.pc \in {"hs_pkt", "tr_pkt", "fin_pkt"} /\ rcv' # rcv) =>
             LET pkt == LastPacket
             IN  /\ rcv'.pc \in {"hs_ack", "tr_ack", "fin_final_ack"}
                 /\ rcv'.seq = pkt[2]
                 /\ rcv'.data_size = Len(pkt) - 5
                 /\ SubSeq(rcv'.buffer, 1, Len(pkt)) = pkt]_vars

(* the receiver has accepted the STX packet with SEQ 1 that the sender built *)
C19_Witness ==
    /\ scen = "clean"
    /\ file.len = 1025
    /\ snd.pc = "data_reply"
    /\ rcv.pc = "tr_ack"
    /\ rcv.seq = 1
    /\ rcv.buffer = BuildPacket(YMODEM_CODE_STX, 1, snd.buffer, YMODEM_STX_DATA_SIZE)

(* ---- CRC-16/CCITT bit by bit ---- *)
(* one shift of the 16-bit register to the left, with polynomial 0x1021 *)
CrcBit(crc) ==
    IF crc >= 32768 THEN Xor16((crc * 2) % 65536, 4129) ELSE (crc * 2) % 65536

RECURSIVE CrcBits(_, _)
CrcBits(crc, n) == IF n = 0 THEN crc ELSE CrcBits(CrcBit(crc), n - 1)

(* the bytes fed one after the other, most significant bit first, from 0 *)
RECURSIVE Crc16Bitwise(_)
Crc16Bitwise(data) ==
    IF data = <<>> THEN 0
    ELSE LET n == Len(data)
         IN  CrcBits(Xor16(Crc16Bitwise(SubSeq(data, 1, n - 1)), data[n] * 256), 8)

(* C21: for every byte string of the set, ymodem_calc_crc16 returns the
   CRC-16/CCITT computed bit by bit (polynomial 0x1021, initial value 0,
   most significant bit first, no final XOR, 16 bits); the result depends on
   the input bytes only, and is 0 for the empty input. *)
C21_Crc16 ==
    /\ calc.crc = Crc16Bitwise(calc.data)
    /\ calc.crc \in 0..65535
    /\ calc.data = <<>> => calc.crc = 0

(* a call on three bytes, the first with its top bit set *)
C21_Witness ==
    /\ scen = "crc16"
    /\ Len(calc.data) = MaxCrcLen
    /\ calc.data[1] = 128
    /\ calc.data[MaxCrcLen] = 49
    /\ calc.crc # 0

(* C22: after packet 0 the sender makes at most 5 receive attempts; an
   attempt that yields 'C', with or without an ACK before it and whatever
   the attempts before it yielded, ends the handshake with packet_seq 1 and
   the stage Established or beyond; an attempt that yields anything else is
   followed by a further attempt if it was not the fifth, and by the return
   of YMODEM_ERR_ACK if it was the fifth. *)
C22_HandshakeReplies ==
    [][(snd.pc = "hs_ack" /\ snd' # snd) =>
          /\ snd.i < 5
          /\ snd'.rx = YMODEM_CODE_C =>
                /\ snd'.pc \notin {"hs_ack", "done"}
                /\ snd'.packet_seq = 1
                /\ snd'.stage >= YMODEM_STAGE_ESTABLISHED
          /\ (snd'.rx # YMODEM_CODE_C /\ snd.i + 1 < 5) =>
                /\ snd'.pc = "hs_ack"
                /\ snd'.i = snd.i + 1
                /\ snd'.got_ack = (snd.got_ack \/ snd'.rx = YMODEM_CODE_ACK)
                /\ snd'.stage = YMODEM_STAGE_ESTABLISHING
          /\ (snd'.rx # YMODEM_CODE_C /\ snd.i + 1 = 5) =>
                /\ snd'.pc = "done"
                /\ snd'.ret = YMODEM_ERR_ACK]_vars

(* the 'C' came with the fifth attempt, against an arbitrary peer *)
C22_Witness ==
    /\ scen = "sender"
    /\ snd.pc = "data_send"
    /\ snd.retries = 0
    /\ snd.i = 4
    /\ snd.rx = YMODEM_CODE_C
    /\ snd.packet_seq = 1
    /\ snd.stage = YMODEM_STAGE_TRANSMITTING

(* C23: in the receiver's Transmitting stage every bad header byte, every
   packet that fails validation and every valid packet with an unexpected
   SEQ adds one to the error count; when the count reaches YMODEM_MAX_ERRORS
   the receiver returns the error of the last kind (YMODEM_ERR_SEQ for a
   sequence mismatch), below that it goes on to send one NAK; a valid packet
   in sequence sets the count to 0. *)
C23_TransErrorBudget ==
    [][(rcv.pc \in {"tr_recv", "tr_pkt"} /\ rcv' # rcv) =>
          /\ rcv'.error_count \in {0, rcv.error_count, rcv.error_count + 1}
          /\ rcv'.error_count = rcv.error_count + 1 =>
                IF rcv'.error_count >= YMODEM_MAX_ERRORS
                THEN /\ rcv'.pc = "done"
                     /\ rcv'.ret \in {YMODEM_ERR_CODE, YMODEM_ERR_TMO,
                                       YMODEM_ERR_SEQ, YMODEM_ERR_CRC}
                     /\ (rcv.pc = "tr_pkt"
                           /\ ymodem_receive_packet(rcv'.buffer, rcv'.data_size + 4)
                                  = YMODEM_ERR_NONE)
                          => rcv'.ret = YMODEM_ERR_SEQ
                ELSE rcv'.pc = "tr_nak"
          /\ rcv'.pc = "tr_ack" => rcv'.error_count = 0]_vars

(* the step leaves the data packet, its SEQ and its payload as they are and
   counts one retry; the fifth retry returns YMODEM_ERR_ACK *)
SameAgain ==
    /\ snd'.retries = snd.retries + 1
    /\ snd'.packet_seq = snd.packet_seq
    /\ snd'.buffer = snd.buffer
    /\ snd'.packet_type = snd.packet_type
    /\ snd'.read_size = snd.read_size
    /\ IF snd'.retries >= 5
       THEN snd'.pc = "done" /\ snd'.ret = YMODEM_ERR_ACK
       ELSE snd'.pc = "data_send"

(* C24: the sender transmits each data packet at most 5 times: a NAK, a
   receive timeout, an unexpected reply byte or a failed send counts as one
   retry of the same packet with the same SEQ and payload, SEQ advances only
   on an accepted reply, and when the retries of one packet reach 5
   ymodem_send_file returns YMODEM_ERR_ACK. *)
C24_DataRetries ==
    /\ [](snd.pc \in {"data_send", "data_reply"} => snd.retries < 5)
    /\ [][(snd.pc = "data_send" /\ snd' # snd) =>
             \/ /\ snd'.pc = "data_reply"
                /\ snd'.sent # 0
                /\ snd'.retries = snd.retries
                /\ snd'.packet_seq = snd.packet_seq
             \/ SameAgain]_vars
    /\ [][(snd.pc = "data_reply" /\ snd' # snd) =>
             /\ snd'.rx \notin {YMODEM_CODE_ACK, YMODEM_CODE_C, YMODEM_CODE_CAN}
                   => SameAgain
             /\ snd'.packet_seq # snd.packet_seq =>
                   /\ snd'.rx \in {YMODEM_CODE_ACK, YMODEM_CODE_C}
                   /\ snd'.packet_seq = (snd.packet_seq + 1) % 256]_vars

(* the fifth transmission of the first data packet was answered by NAK *)
C24_Witness ==
    /\ scen = "sender"
    /\ snd.pc = "done"
    /\ snd.ret = YMODEM_ERR_ACK
    /\ snd.retries = 5
    /\ snd.rx = YMODEM_CODE_NAK
    /\ snd.packet_seq = 1
    /\ snd.stage = YMODEM_STAGE_TRANSMITTING

(* C27: a 'C' received in reply to a data packet is taken as ACK only for
   the first data packet of the transfer; in reply to a later data packet it
   counts as a retry and SEQ stays. *)
C27_COnlyFirst ==
    [][(snd.pc = "data_reply" /\ snd' # snd /\ snd'.rx = YMODEM_CODE_C
          /\ snd.pos - snd.actual_read > 0) =>
             /\ snd'.packet_seq = snd.packet_seq
             /\ snd'.retries = snd.retries + 1]_vars

(* C25: the receiver sends the ACK and the 'C' that answer packet 0 only
   when packet 0 was parsed and the output file was opened; when the
   filename of packet 0 is empty or file_open returns NULL,
   ymodem_receive_file returns YMODEM_ERR_FILE without having sent them. *)
C25_AckAfterOpen ==
    [][(rcv.pc \in {"hs_ack", "hs_c"} /\ rcv' # rcv) =>
          /\ rcv.file_handle # "NULL"
          /\ ~(rcv'.pc = "done" /\ rcv'.ret = YMODEM_ERR_FILE)]_vars

(* C26: in the receiver's Finishing stage, a valid packet with SEQ 0 and
   payload[0] # 0 received after the second EOT is answered with ACK and
   ymodem_receive_file returns YMODEM_ERR_NONE without a further receive. *)
C26_NextFileAcked ==
    [][(/\ rcv.pc = "fin_pkt"
        /\ rcv' # rcv
        /\ rcv'.retries = rcv.retries
        /\ ymodem_receive_packet(rcv'.buffer, PacketSizeOf(rcv'.buffer[1]) - 1)
              = YMODEM_ERR_NONE
        /\ rcv'.buffer[2] = 0
        /\ rcv'.buffer[4] # 0) => rcv'.pc = "fin_final_ack"]_vars

(* C30: in the receiver's Finishing stage the first EOT is answered with
   NAK; when the byte that follows is not EOT, or the wait times out, NAK is
   sent once more and one more byte awaited; when that is not EOT either
   ymodem_receive_file returns YMODEM_ERR_CODE; ACK and then 'C' are sent
   only after a second EOT was received. *)
C30_SecondEot ==
    /\ [][(rcv.pc = "tr_recv" /\ rcv' # rcv /\ rcv'.buffer[1] = YMODEM_CODE_EOT
              /\ rcv'.pc # "done") => rcv'.pc = "fin_nak1"]_vars
    /\ [][(rcv.pc \in {"fin_nak1", "fin_nak2"} /\ rcv' # rcv) =>
             /\ Paired => rlog' = Append(rlog, YMODEM_CODE_NAK)
             /\ \/ rcv'.pc = (IF rcv.pc = "fin_nak1" THEN "fin_eot1" ELSE "fin_eot2")
                \/ rcv'.pc = "done" /\ rcv'.ret = YMODEM_ERR_CODE]_vars
    /\ [][(rcv.pc \in {"fin_eot1", "fin_eot2"} /\ rcv' # rcv) =>
             IF rcv'.rx = YMODEM_CODE_EOT THEN rcv'.pc = "fin_ack"
             ELSE IF rcv.pc = "fin_eot1" THEN rcv'.pc = "fin_nak2"
             ELSE rcv'.pc = "done" /\ rcv'.ret = YMODEM_ERR_CODE]_vars
    /\ [][(rcv'.pc = "fin_ack" /\ rcv.pc # "fin_ack") =>
             /\ rcv.pc \in {"fin_eot1", "fin_eot2"}
             /\ rcv'.rx = YMODEM_CODE_EOT]_vars
    /\ [][(rcv.pc \in {"fin_ack", "fin_c"} /\ rcv' # rcv) =>
             /\ Paired => rlog' = Append(rlog, IF rcv.pc = "fin_ack"
                                                THEN YMODEM_CODE_ACK ELSE YMODEM_CODE_C)
             /\ rcv.pc = "fin_ack" => rcv'.pc \in {"fin_c", "done"}
             /\ rcv'.pc = "fin_c" => rcv.pc = "fin_ack"]_vars

(* the first wait for the second EOT has timed out, NAK was sent once more
   and the second wait has begun *)
C30_Witness ==
    /\ scen = "receiverfin"
    /\ rcv.pc = "fin_eot2"
    /\ rcv.rx = YMODEM_ERR_TMO
    /\ rcv.stage = YMODEM_STAGE_FINISHING

(* C28: the sender's wait for 'C' after the second EOT is bounded: whatever
   bytes the peer sends, a stream of ACK bytes included, the wait makes no
   more than YMODEM_MAX_ERRORS receive attempts before the sender goes on to
   the terminator packet. *)
C28_BoundedWaitForC ==
    snd.pc = "fin_c" => snd.waits < YMODEM_MAX_ERRORS

(* the step counts one attempt of sending EOT; the fifth returns
   YMODEM_ERR_ACK, an earlier one sends the EOT again *)
EotAgain(pc) ==
    /\ snd'.retries = snd.retries + 1
    /\ IF snd'.retries >= 5
       THEN snd'.pc = "done" /\ snd'.ret = YMODEM_ERR_ACK
       ELSE snd'.pc = pc

(* C29: the sender transmits the terminator packet (SOH, SEQ 0, 128 zero
   bytes) only after an EOT of at most 5 was answered by NAK, else
   YMODEM_ERR_ACK, and after that a further EOT was answered by ACK or NAK;
   once the terminator is sent, ymodem_send_file returns YMODEM_ERR_NONE with
   the stage Finished, with or without a final ACK. *)
C29_Terminator ==
    /\ [](snd.pc \in {"eot1_send", "eot1_reply", "eot2_send", "eot2_reply"}
            => snd.retries < 5)
    /\ [][(snd.pc = "eot1_reply" /\ snd' # snd) =>
             IF snd'.rx = YMODEM_CODE_NAK THEN snd'.pc = "eot2_send"
             ELSE EotAgain("eot1_send")]_vars
    /\ [][(snd.pc = "eot2_reply" /\ snd' # snd) =>
             IF snd'.rx \in {YMODEM_CODE_ACK, YMODEM_CODE_NAK} THEN snd'.pc = "fin_c"
             ELSE EotAgain("eot2_send")]_vars
    /\ [][(snd'.pc # snd.pc /\ snd'.pc \in {"eot2_send", "fin_c", "null_send"}) =>
             CASE snd'.pc = "null_send" -> snd.pc = "fin_c"
               [] snd'.pc = "fin_c" -> snd.pc = "eot2_reply"
               [] snd'.pc = "eot2_send" -> snd.pc \in {"eot1_reply", "eot2_reply"}]_vars
    /\ [][(snd.pc = "null_send" /\ snd' # snd) =>
             LET pkt == BuildPacket(YMODEM_CODE_SOH, 0, snd.buffer, YMODEM_SOH_DATA_SIZE)
             IN  /\ SubSeq(pkt, 1, 3) = <<YMODEM_CODE_SOH, 0, 255>>
                 /\ SubSeq(pkt, 4, 3 + YMODEM_SOH_DATA_SIZE) = Zeros(YMODEM_SOH_DATA_SIZE)
                 /\ (Paired /\ snd'.sent # 0 /\ scen # "flip") => s2r' = s2r \o pkt
                 /\ snd'.sent # 0 => snd'.pc = "fin_ack"]_vars
    /\ [][(snd.pc = "fin_ack" /\ snd' # snd) =>
             /\ snd'.pc = "done"
             /\ snd'.ret = YMODEM_ERR_NONE
             /\ snd'.stage = YMODEM_STAGE_FINISHED]_vars

(* the call has returned YMODEM_ERR_NONE although the wait for the final ACK
   timed out *)
C29_Witness ==
    /\ scen = "sender"
    /\ snd.pc = "done"
    /\ snd.ret = YMODEM_ERR_NONE
    /\ snd.stage = YMODEM_STAGE_FINISHED
    /\ snd.rx = YMODEM_ERR_TMO

(* C31: in the receiver's Finishing stage, after the second EOT was ACKed,
   every failed attempt at the final packet (timeout, invalid packet,
   SEQ # 0, stray byte, one more EOT) counts one retry; when the retries
   reach YMODEM_MAX_ERRORS without a valid null-filename packet,
   ymodem_receive_file returns YMODEM_ERR_NONE with the stage Finished and
   the file closed. *)
C31_FinGivesUpWithSuccess ==
    /\ [](rcv.pc \in {"fin_recv", "fin_pkt", "fin_eot_ack"} => rcv.retries < 5)
    /\ [][(rcv.pc \in {"fin_recv", "fin_pkt", "fin_eot_ack"}
              /\ rcv'.retries = rcv.retries + 1) =>
             IF rcv'.retries >= 5
             THEN /\ rcv'.pc = "done"
                  /\ rcv'.ret = YMODEM_ERR_NONE
                  /\ rcv'.stage = YMODEM_STAGE_FINISHED
                  /\ rcv'.file_handle = "NULL"
                  /\ rcv'.closes = rcv'.opens
             ELSE rcv'.pc = "fin_recv"]_vars

(* the fifth attempt failed and the call has returned YMODEM_ERR_NONE *)
C31_Witness ==
    /\ scen = "receiverfin"
    /\ rcv.pc = "done"
    /\ rcv.retries = 5
    /\ rcv.ret = YMODEM_ERR_NONE
    /\ rcv.stage = YMODEM_STAGE_FINISHED
    /\ rcv.file_handle = "NULL"

(* C32: the receiver sends the ACK of a data packet only after file_write has
   accepted every byte it was given; a short write returns YMODEM_ERR_FILE
   with no byte sent; the expected SEQ advances only in the step that has
   sent that ACK *)
TransPcs == {"tr_recv", "tr_pkt", "tr_nak", "tr_ack"}

C32_AckAfterFullWrite ==
    /\ [][(rcv.pc = "tr_pkt" /\ rcv' # rcv) =>
            /\ r2s' = r2s /\ rlog' = rlog
            /\ rcv'.expected_seq = rcv.expected_seq
            /\ rcv'.pc = "tr_ack" =>
                  rcv'.total_received - rcv.total_received = OutputLen' - OutputLen
            /\ (OutputLen' # OutputLen /\ rcv'.pc # "tr_ack") =>
                  /\ rcv'.pc = "done"
                  /\ rcv'.ret = YMODEM_ERR_FILE]_vars
    /\ [][(rcv'.pc = "tr_ack" /\ rcv.pc # "tr_ack") => rcv.pc = "tr_pkt"]_vars
    /\ [][(rcv.pc \in TransPcs /\ Paired /\ rlog' # rlog
             /\ rlog'[Len(rlog')] = YMODEM_CODE_ACK) => rcv.pc = "tr_ack"]_vars
    /\ [][(rcv.pc \in TransPcs /\ rcv'.expected_seq # rcv.expected_seq) =>
            /\ rcv.pc = "tr_ack"
            /\ rcv'.pc = "tr_recv"
            /\ rcv'.expected_seq = (rcv.expected_seq + 1) % 256
            /\ Paired => rlog' = Append(rlog, YMODEM_CODE_ACK)]_vars

C32_Witness ==
    /\ scen = "receiver" /\ rcv.pc = "done" /\ rcv.ret = YMODEM_ERR_FILE
    /\ rcv.stage = YMODEM_STAGE_TRANSMITTING
    /\ OutputLen > 0 /\ rcv.total_received < OutputLen


(* C33: after an SOH or STX header of a packet with N data bytes, fewer than
   the remaining N + 4 bytes give YMODEM_ERR_TMO; otherwise a second byte
   that is not the first XOR 0xFF gives YMODEM_ERR_SEQ, whatever the CRC;
   otherwise a CRC that differs gives YMODEM_ERR_CRC; only a packet that
   passes the three tests is valid *)
RECURSIVE CrcBitsRange(_, _, _, _)
CrcBitsRange(crc, data, lo, hi) ==
    IF lo > hi THEN crc
    ELSE IF lo = hi THEN CrcBits(Xor16(crc, data[lo] * 256), 8)
    ELSE LET mid == (lo + hi) \div 2
             left == CrcBitsRange(crc, data, lo, mid)
         IN  IF left >= 0 THEN CrcBitsRange(left, data, mid + 1, hi) ELSE 0

PacketVerdict(hdr, rest) ==
    LET N == IF hdr = YMODEM_CODE_SOH THEN 128 ELSE 1024
    IN  IF Len(rest) < N + 4 THEN YMODEM_ERR_TMO
        ELSE IF rest[2] # Xor8(rest[1], 255) THEN YMODEM_ERR_SEQ
        ELSE IF rest[N + 3] * 256 + rest[N + 4]
                    # CrcBitsRange(0, rest, 3, N + 2) THEN YMODEM_ERR_CRC
        ELSE YMODEM_ERR_NONE

C33_PacketValidation ==
    pcall # NoPacketCall => pcall.ret = PacketVerdict(pcall.hdr, pcall.rest)

C33_Witness ==
    /\ scen = "packet"
    /\ pcall.hdr = YMODEM_CODE_SOH
    /\ Len(pcall.rest) = 132
    /\ pcall.rest[2] # Xor8(pcall.rest[1], 255)
    /\ pcall.rest[131] * 256 + pcall.rest[132] # CrcBitsRange(0, pcall.rest, 3, 130)
    /\ pcall.ret = YMODEM_ERR_SEQ


(* C34: with handshake_timeout_s = T >= 1, the sender waits for the first
   'C' in at most T receive attempts, a byte other than 'C' uses up one of
   them, and after T of them it returns YMODEM_ERR_TMO having sent nothing;
   the receiver sends at most T 'C' bytes, one before each receive attempt,
   and after T attempts without SOH or STX it returns YMODEM_ERR_TMO having
   opened no file *)
C34_HandshakeBounded ==
    /\ []((hs_timeout >= 1 /\ snd.pc = "hs_wait") =>
            /\ snd.i < hs_timeout
            /\ Paired => slog = prev.slog
            /\ scen = "sender" => snd.sent = 0)
    /\ [][(hs_timeout >= 1 /\ snd.pc = "hs_wait" /\ snd' # snd) =>
            /\ slog' = slog /\ s2r' = s2r /\ snd'.sent = snd.sent
            /\ snd'.rx # YMODEM_CODE_C =>
                  /\ snd'.i = snd.i + 1
                  /\ IF snd'.i = hs_timeout
                     THEN snd'.pc = "done" /\ snd'.ret = YMODEM_ERR_TMO
                     ELSE snd'.pc = "hs_wait"]_vars
    /\ []((hs_timeout >= 1 /\ rcv.pc \in {"hs_sendc", "hs_recv"}) =>
            /\ rcv.i < hs_timeout
            /\ rcv.opens = IF prev.done THEN 1 ELSE 0
            /\ Paired =>
                  /\ Len(rlog) - Len(prev.rlog)
                        = rcv.i + (IF rcv.pc = "hs_recv" THEN 1 ELSE 0)
                  /\ \A k \in (Len(prev.rlog) + 1)..Len(rlog) :
                        rlog[k] = YMODEM_CODE_C)
    /\ [][(hs_timeout >= 1 /\ rcv.pc = "hs_recv" /\ rcv' # rcv /\ rcv'.pc # "hs_pkt") =>
            /\ rcv'.i = rcv.i + 1
            /\ rlog' = rlog
            /\ IF rcv'.i = hs_timeout
               THEN /\ rcv'.pc = "done" /\ rcv'.ret = YMODEM_ERR_TMO
                    /\ rcv'.opens = rcv.opens /\ rcv'.file_handle = "NULL"
               ELSE rcv'.pc = "hs_sendc"]_vars

C34_Witness ==
    /\ scen = "abort" /\ hs_timeout = 2
    /\ snd.pc = "done" /\ snd.ret = YMODEM_ERR_TMO /\ snd.i = 2
    /\ rcv.pc = "done" /\ rcv.ret = YMODEM_ERR_TMO /\ rcv.i = 2
    /\ slog = <<>> /\ rlog = <<YMODEM_CODE_C, YMODEM_CODE_C>>
    /\ rcv.opens = 0


(* C35: at every point of a transfer, the bytes the receiver has written are
   a prefix of the sender's file; a valid packet whose SEQ is not the
   expected one is not written and is answered by NAK, or ends the call with
   YMODEM_ERR_SEQ when the error budget is used up; every write continues
   the file where the last one ended *)
OutputIsPrefix ==
    /\ OutputLen <= file.len
    /\ \A k \in 1..Len(out) : out[k] = FileByte(file.pat, verified + k - 1)

C35_OutputIsPrefix ==
    /\ [](Paired => OutputIsPrefix)
    /\ [][(Paired /\ rcv.pc = "tr_pkt" /\ rcv' # rcv) =>
            /\ (rcv'.seq # rcv.expected_seq \/ rcv'.pc \notin {"tr_ack", "done"}
                   \/ rcv'.ret = YMODEM_ERR_SEQ) =>
                  /\ out' = out /\ verified' = verified
                  /\ rcv'.pc = "tr_nak" \/ rcv'.pc = "done"
            /\ OutputLen' >= OutputLen
            /\ rcv'.pc = "tr_ack" => rcv'.seq = rcv.expected_seq]_vars
    /\ [][(Paired /\ OutputLen' # OutputLen /\ ~(scen = "reuse" /\ OutputLen' = 0)) =>
            /\ rcv.pc = "tr_pkt"
            /\ OutputLen' > OutputLen]_vars

C35_Witness ==
    /\ scen = "ackloss" /\ file.len = 1025
    /\ rcv.pc = "tr_nak" /\ rcv.seq = 1 /\ rcv.expected_seq = 2
    /\ OutputLen = 1024 /\ OutputIsPrefix

(* C36: the sender goes from a data packet to the next one, or to the first
   EOT, only when the receiver has written that packet: every byte of the
   file the sender has read is in the output *)
C36_StopAndWait ==
    [][(Paired /\ snd.pc = "data_reply" /\ snd'.pc \in {"data_read", "data_send", "eot1_send"}
          /\ snd'.packet_seq # snd.packet_seq) =>
         OutputLen >= snd.pos]_vars

(* C37: if ymodem_send_file and ymodem_receive_file have both returned
   YMODEM_ERR_NONE for a transfer, the output file equals the input file *)
C37_AgreementOnSuccess ==
    (Paired /\ snd.pc = "done" /\ rcv.pc = "done"
        /\ snd.ret = YMODEM_ERR_NONE /\ rcv.ret = YMODEM_ERR_NONE) => OutputIsInput


(* C38: when ymodem_send_file or ymodem_receive_file has returned with the
   stage at YMODEM_STAGE_FINISHED, it has returned YMODEM_ERR_NONE *)
C38_FinishedOnlyOnSuccess ==
    /\ (snd.pc = "done" /\ snd.stage = YMODEM_STAGE_FINISHED) =>
          snd.ret = YMODEM_ERR_NONE
    /\ (rcv.pc = "done" /\ rcv.stage = YMODEM_STAGE_FINISHED) =>
          rcv.ret = YMODEM_ERR_NONE


(* C39: with handshake_timeout_s <= 0, a call that has begun its handshake
   returns YMODEM_ERR_TMO; the sender comes to packet 0 only with a 'C'
   received, and the receiver comes to the rest of a packet only with an SOH
   or STX header received *)
C39_NoTimeNoHandshake ==
    hs_timeout <= 0 =>
        /\ snd.pc \in {"hs_send0", "hs_ack"} => snd.rx = YMODEM_CODE_C
        /\ (snd.pc = "done" /\ snd.stage = YMODEM_STAGE_ESTABLISHING) =>
              snd.ret = YMODEM_ERR_TMO
        /\ rcv.pc = "hs_pkt" => rcv.buffer[1] \in {YMODEM_CODE_SOH, YMODEM_CODE_STX}
        /\ (rcv.pc = "done" /\ rcv.stage = YMODEM_STAGE_ESTABLISHING) =>
              rcv.ret = YMODEM_ERR_TMO


(* C40: when every callback returns and the peer sends finitely many bytes,
   ymodem_send_file and ymodem_receive_file each return in the end, and
   there is no state in which the two wait for each other for ever *)
C40_Termination == <>[](Returned(snd.pc) /\ Returned(rcv.pc))

C40_Witness ==
    /\ scen = "receiverfin"
    /\ rcv.pc = "done"
    /\ rcv.waits = MaxExtraInfo
    /\ rcv.retries > 0
    /\ Returned(snd.pc)

====
